---- MODULE Spec2Model ----
(***************************************************************************)
(* Possession ledger, game registry, row counts, analytics and the         *)
(* relational store of backend/streamlit_app.py, as a state machine.       *)
(*                                                                         *)
(* Python values are encoded as follows.  uuid4() strings are fresh        *)
(* integers drawn from counters (games from 1, possessions from 101);      *)
(* None is -1 where the other values are integers (active_game_id,         *)
(* points) and the string "NULL" where they are text (store columns);      *)
(* a dict is a function on its keys; a list is a sequence.                 *)
(***************************************************************************)
EXTENDS Integers, Sequences, FiniteSets, TLC

VARIABLES
    games,             \* st.session_state.games: list of game dicts
    active_game_id,    \* st.session_state.active_game_id
    rows_by_quarter,   \* st.session_state.rows_by_quarter: dict quarter -> rows
    quarter,           \* st.session_state.quarter
    db_loaded,         \* st.session_state.db_loaded
    pending_delete_game_id,  \* st.session_state.pending_delete_game_id
    nextGame,          \* next fresh uuid4() for a game
    nextPoss,          \* next fresh uuid4() for a possession
    engine,            \* get_engine() is not None: DATABASE_URL is set
    db_games,          \* rows of table games
    db_possessions,    \* rows of table possessions
    db_seq,            \* a fresh value of the games.id serial
    calls,             \* direct calls of the ledger functions made so far
    widget_state,      \* Paint Touch radios of the last script run: key -> index, value
    last               \* the handler that ran last, with its arguments

sessionVars == <<games, active_game_id, rows_by_quarter, quarter, db_loaded,
                 pending_delete_game_id, nextGame, nextPoss>>
storeVars == <<engine, db_games, db_possessions, db_seq>>
vars == <<sessionVars, storeVars, calls, widget_state, last>>

----------------------------------------------------------------------------
(* Bounds of the model *)

MaxSlot == 2           \* highest row the scorer touches in a quarter
MaxPoss == 2           \* possession records created in one session
MaxShrink == 1         \* row deletions explored per quarter below the default
MaxGames == 2          \* games created in one session
MaxGrow == 1           \* rows added per quarter above the default
MaxCalls == 3          \* direct calls of the ledger functions
MaxLen == 3            \* possessions of a game whose figures are computed
MaxRun == 9            \* possessions of a quarter whose streaks are counted
MaxOrder == 4          \* possessions of a game entered in any order of their rows

----------------------------------------------------------------------------
(* Program constants *)

None == -1
POINT_OPTIONS == {0, 1, 2, 3, 4}
DEFAULT_ROWS == 30
QUARTERS == {1, 2, 3, 4}
FirstPossId == 101

OUTCOME_VALUES ==
    {"shot_at_rim_make", "shot_at_rim_miss", "kick_out_3_make", "kick_out_3_miss",
     "foul_drawn", "turnover", "putback", "reset"}

Min(a, b) == IF a < b THEN a ELSE b
Max(a, b) == IF a > b THEN a ELSE b

----------------------------------------------------------------------------
(* Possession ledger: update_possession, delete_possession *)

\* dict.update: the keys of u overwrite or extend those of r
DictUpdate(r, u) ==
    [f \in (DOMAIN r) \cup (DOMAIN u) |-> IF f \in DOMAIN u THEN u[f] ELSE r[f]]

NewPossession(id, q, number) ==
    [id |-> id, quarter |-> q, number |-> number,
     paint_touch |-> FALSE, transition |-> FALSE, points |-> None,
     outcome |-> "", defense |-> "", shot_quality |-> ""]

\* indices of the records at (q, number), in list order
SlotIndices(possessions, q, number) ==
    {i \in 1..Len(possessions) :
        possessions[i].quarter = q /\ possessions[i].number = number}

\* indices of the records of quarter q
InQuarter(possessions, q) ==
    {i \in 1..Len(possessions) : possessions[i].quarter = q}

SetMin(S) == CHOOSE x \in S : \A y \in S : x <= y

\* faulty variant: the lookup never finds the record, so every call appends one
update_possession_append(possessions, q, number, updates, newid) ==
    Append(possessions, DictUpdate(NewPossession(newid, q, number), updates))

\* faulty variant: an existing record is set back to a blank one before the
\* update, its id kept
update_possession_fresh(possessions, q, number, updates, newid) ==
    LET found == SlotIndices(possessions, q, number) IN
    IF found = {}
    THEN Append(possessions, DictUpdate(NewPossession(newid, q, number), updates))
    ELSE [possessions EXCEPT ![SetMin(found)] =
                DictUpdate(NewPossession(@.id, q, number), updates)]

update_possession(possessions, q, number, updates, newid) ==
    LET found == SlotIndices(possessions, q, number) IN
    IF found = {}
    THEN Append(possessions, DictUpdate(NewPossession(newid, q, number), updates))
    ELSE [possessions EXCEPT ![SetMin(found)] = DictUpdate(@, updates)]

\* faulty variant: the record is removed and the later ones keep their numbers
delete_possession_gap(possessions, q, number) ==
    SelectSeq(possessions, LAMBDA p : ~(p.quarter = q /\ p.number = number))

delete_possession(possessions, q, number) ==
    LET kept == SelectSeq(possessions,
                    LAMBDA p : ~(p.quarter = q /\ p.number = number))
    IN [i \in 1..Len(kept) |->
            IF kept[i].quarter = q /\ kept[i].number > number
            THEN [kept[i] EXCEPT !.number = @ - 1]
            ELSE kept[i]]

----------------------------------------------------------------------------
(* Session state *)

\* faulty variant: a quarter never set shows no row
get_rows_for_quarter_unset(q) ==
    IF q \in DOMAIN rows_by_quarter THEN rows_by_quarter[q] ELSE 0

get_rows_for_quarter(q) ==
    IF q \in DOMAIN rows_by_quarter THEN rows_by_quarter[q] ELSE DEFAULT_ROWS

\* index in games of the active game, 0 when there is none
ActiveIndex ==
    LET found == {i \in 1..Len(games) : games[i].id = active_game_id}
    IN IF found = {} THEN 0 ELSE SetMin(found)

get_active_game == IF ActiveIndex = 0 THEN None ELSE games[ActiveIndex].id

ActivePossessions == games[ActiveIndex].possessions

\* the record shown in row `number` of the current quarter, as possession_map
\* builds it: the last record of the quarter with that number
EntryIndex(number) ==
    LET found == SlotIndices(ActivePossessions, quarter, number)
    IN IF found = {} THEN 0 ELSE CHOOSE i \in found : \A j \in found : j <= i

\* the session state a new session starts with
InitSession ==
    /\ games = <<>>
    /\ active_game_id = None
    /\ rows_by_quarter = <<>>
    /\ quarter = 1
    /\ db_loaded = FALSE
    /\ pending_delete_game_id = None
    /\ nextGame = 1
    /\ nextPoss = FirstPossId
    /\ calls = 0
    /\ widget_state = <<>>
    /\ last = [op |-> "init"]

\* no DATABASE_URL: the session runs in memory only
Init ==
    /\ InitSession
    /\ engine = FALSE
    /\ db_games = {}
    /\ db_possessions = {}
    /\ db_seq = 1

----------------------------------------------------------------------------
(* Sidebar: create and select a game *)

\* a game name as typed: a sequence of characters; str.strip() drops the
\* leading and trailing blanks
RECURSIVE LStrip(_)
LStrip(s) == IF s # <<>> /\ Head(s) = " " THEN LStrip(Tail(s)) ELSE s

RECURSIVE RStrip(_)
RStrip(s) ==
    IF s # <<>> /\ s[Len(s)] = " " THEN RStrip(SubSeq(s, 1, Len(s) - 1)) ELSE s

\* faulty variant: the name is taken as typed
Strip_keep(s) == s

Strip(s) == RStrip(LStrip(s))

NameChoices == {<<>>, <<" ">>, <<"a">>, <<" ", "a", " ">>}
OpponentChoices == {""}
DateChoices == {"2026-01-01"}

\* faulty variant: the game is put at the end of the list
InsertFront_append(gs, game) == Append(gs, game)

\* list.insert(0, game)
InsertFront(gs, game) == <<game>> \o gs

CreateGame(game_name, opponent, game_date) ==
    /\ db_loaded
    /\ IF Strip(game_name) # <<>>
       THEN /\ games' = InsertFront(games,
                            [id |-> nextGame, name |-> Strip(game_name),
                             opponent |-> opponent, date |-> game_date,
                             possessions |-> <<>>])
            /\ active_game_id' = nextGame
            /\ nextGame' = nextGame + 1
       ELSE UNCHANGED <<games, active_game_id, nextGame>>
    /\ last' = [op |-> "create_game", name |-> game_name, id |-> nextGame]
    /\ UNCHANGED <<rows_by_quarter, quarter, nextPoss, db_loaded, pending_delete_game_id, storeVars, calls, widget_state>>

SelectGame(i) ==
    /\ db_loaded
    /\ i \in 1..Len(games)
    /\ active_game_id' = games[i].id
    /\ last' = [op |-> "select", game |-> games[i].id]
    /\ UNCHANGED <<games, rows_by_quarter, quarter, nextGame, nextPoss, db_loaded, pending_delete_game_id, storeVars, calls, widget_state>>

\* the Quarter selectbox, shown while a game is active
SelectQuarter(q) ==
    /\ db_loaded
    /\ ActiveIndex # 0
    /\ quarter' = q
    /\ last' = [op |-> "quarter", q |-> q]
    /\ UNCHANGED <<games, active_game_id, rows_by_quarter, nextGame, nextPoss, db_loaded, pending_delete_game_id, storeVars, calls, widget_state>>

----------------------------------------------------------------------------
(* Possession rows of the active game in the current quarter *)

\* one field widget of row `number` changed by the scorer: update_possession
\* is called when the choice differs from what the row shows
Upsert(number, updates) ==
    /\ games' = [games EXCEPT ![ActiveIndex].possessions =
                    update_possession(@, quarter, number, updates, nextPoss)]
    /\ nextPoss' = IF EntryIndex(number) = 0 THEN nextPoss + 1 ELSE nextPoss
    /\ last' = [op |-> "upsert", game |-> active_game_id, q |-> quarter,
                number |-> number, updates |-> updates,
                created |-> EntryIndex(number) = 0]
    /\ UNCHANGED <<active_game_id, rows_by_quarter, quarter, nextGame, db_loaded, pending_delete_game_id, storeVars, calls, widget_state>>

\* row `number` is rendered: a game is active and the row is within the count
RowShown(number) ==
    /\ db_loaded
    /\ ActiveIndex # 0
    /\ number \in 1..get_rows_for_quarter(quarter)

PaintWidget(number, paint_choice) ==
    /\ RowShown(number)
    /\ LET paint_touch == IF EntryIndex(number) = 0 THEN None
                          ELSE IF ActivePossessions[EntryIndex(number)].paint_touch
                               THEN 1 ELSE 0
       IN paint_choice # paint_touch
    /\ Upsert(number, [paint_touch |-> (paint_choice # 0)])

PointsWidget(number, points_choice) ==
    /\ RowShown(number)
    /\ LET points == IF EntryIndex(number) = 0 THEN None
                     ELSE ActivePossessions[EntryIndex(number)].points
       IN points_choice # points
    /\ Upsert(number, [points |-> points_choice])

\* faulty variant: the row count is decremented without the floor
ShrunkRows_nofloor(current_rows) == current_rows - 1

\* the row count the bin button leaves behind
ShrunkRows(current_rows) == Max(1, current_rows - 1)

\* the bin button of row `number`
DeletePossessionButton(number) ==
    /\ RowShown(number)
    /\ games' = [games EXCEPT ![ActiveIndex].possessions =
                    delete_possession(@, quarter, number)]
    /\ rows_by_quarter' = DictUpdate(rows_by_quarter,
            [k \in {quarter} |-> ShrunkRows(get_rows_for_quarter(quarter))])
    /\ last' = [op |-> "delete", game |-> active_game_id, q |-> quarter,
                number |-> number, rows |-> get_rows_for_quarter(quarter),
                found |-> EntryIndex(number) # 0,
                filled |-> Cardinality(InQuarter(ActivePossessions, quarter))]
    /\ UNCHANGED <<active_game_id, quarter, nextGame, nextPoss, db_loaded, pending_delete_game_id, storeVars, calls, widget_state>>

AddPossessionRow ==
    /\ db_loaded
    /\ ActiveIndex # 0
    /\ rows_by_quarter' = DictUpdate(rows_by_quarter,
            [k \in {quarter} |-> get_rows_for_quarter(quarter) + 1])
    /\ last' = [op |-> "expand", game |-> active_game_id, q |-> quarter]
    /\ UNCHANGED <<games, active_game_id, quarter, nextGame, nextPoss, db_loaded, pending_delete_game_id, storeVars, calls, widget_state>>

----------------------------------------------------------------------------
(* The ledger functions called directly on a game *)

ApiUpdatePossession(q, number, updates) ==
    /\ ActiveIndex # 0
    /\ games' = [games EXCEPT ![ActiveIndex].possessions =
                    update_possession(@, q, number, updates, nextPoss)]
    /\ nextPoss' = IF SlotIndices(ActivePossessions, q, number) = {}
                   THEN nextPoss + 1 ELSE nextPoss
    /\ calls' = calls + 1
    /\ last' = [op |-> "api_upsert", q |-> q, number |-> number, updates |-> updates,
                created |-> SlotIndices(ActivePossessions, q, number) = {},
                replay |-> /\ last.op = "api_upsert"
                           /\ last.q = q /\ last.number = number
                           /\ DOMAIN last.updates = DOMAIN updates
                           /\ last.updates = updates,
                after_create |-> last.op = "api_upsert" /\ last.created]
    /\ UNCHANGED <<active_game_id, rows_by_quarter, quarter, db_loaded,
                   pending_delete_game_id, nextGame, storeVars, widget_state>>

ApiDeletePossession(q, number) ==
    /\ ActiveIndex # 0
    /\ games' = [games EXCEPT ![ActiveIndex].possessions =
                    delete_possession(@, q, number)]
    /\ calls' = calls + 1
    /\ last' = [op |-> "api_delete", q |-> q, number |-> number]
    /\ UNCHANGED <<active_game_id, rows_by_quarter, quarter, db_loaded,
                   pending_delete_game_id, nextGame, nextPoss, storeVars, widget_state>>

----------------------------------------------------------------------------
(* The relational store: tables games and possessions *)

\* SQL NULL in a text column
NULL == "NULL"

\* x or "" on a text value
OrEmpty(x) == IF x = NULL THEN "" ELSE x

\* the row load_games reads: tracker IS NULL OR tracker = '' OR tracker = 'paint'
TrackerRead(tracker) == tracker \in {NULL, "", "paint"}

\* INSERT INTO games ... ON CONFLICT (client_id) DO UPDATE
UpsertGameRow(rows, seq, game, today) ==
    IF \E r \in rows : r.client_id = game.id
    THEN {IF r.client_id = game.id
          THEN [r EXCEPT !.name = game.name, !.opponent = OrEmpty(game.opponent),
                         !.game_date = game.date]
          ELSE r : r \in rows}
    ELSE rows \cup {[id |-> seq, client_id |-> game.id, name |-> game.name,
                     opponent |-> OrEmpty(game.opponent), game_date |-> game.date,
                     created_at |-> today]}

\* SELECT id FROM games WHERE client_id = :client_id (None when no row matches)
GameRowId(rows, client_id) ==
    IF \E r \in rows : r.client_id = client_id
    THEN (CHOOSE r \in rows : r.client_id = client_id).id
    ELSE None

\* DELETE FROM possessions WHERE game_id = :game_id
DeletePossessionRows(rows, game_id) == {r \in rows : r.game_id # game_id}

\* faulty variant: points not entered yet are written as 0
PossessionRow_zeropoints(possession, game_id, today) ==
    [client_id |-> possession.id,
     game_id |-> game_id,
     number |-> possession.number,
     quarter |-> possession.quarter,
     paint_touch |-> (possession.paint_touch = TRUE),
     transition |-> IF possession.transition = TRUE THEN 1 ELSE 0,
     points |-> Max(0, possession.points),
     outcome |-> possession.outcome,
     defense |-> OrEmpty(possession.defense),
     shot_quality |-> OrEmpty(possession.shot_quality),
     tracker |-> "paint",
     timestamp |-> IF "timestamp" \in DOMAIN possession
                   THEN possession.timestamp ELSE today]

\* the parameters of one INSERT INTO possessions of sync_game
PossessionRow(possession, game_id, today) ==
    [client_id |-> possession.id,
     game_id |-> game_id,
     number |-> possession.number,
     quarter |-> possession.quarter,
     paint_touch |-> (possession.paint_touch = TRUE),
     transition |-> IF possession.transition = TRUE THEN 1 ELSE 0,
     points |-> possession.points,
     outcome |-> possession.outcome,
     defense |-> OrEmpty(possession.defense),
     shot_quality |-> OrEmpty(possession.shot_quality),
     tracker |-> "paint",
     timestamp |-> IF "timestamp" \in DOMAIN possession
                   THEN possession.timestamp ELSE today]

\* the rows sync_game inserts for a game, in list order
SyncRows(game, game_id, today) ==
    [i \in 1..Len(game.possessions) |->
        PossessionRow(game.possessions[i], game_id, today)]

\* an INSERT of sync_game violates UNIQUE (client_id)
SyncConflict(kept, rows) ==
    \/ \E i \in 1..Len(rows) : \E r \in kept : r.client_id = rows[i].client_id
    \/ \E i, j \in 1..Len(rows) : i # j /\ rows[i].client_id = rows[j].client_id

\* with engine.begin() as conn: the tables the block leaves behind.  tx holds
\* the tables as its statements changed them and ok = FALSE when one of them
\* raised; the block commits when it ends normally and rolls back when it raises
\* faulty variant: every statement is committed as it runs
Transaction_autocommit(tables, tx) ==
    [games |-> tx.games, possessions |-> tx.possessions]

Transaction(tables, tx) ==
    IF tx.ok THEN [games |-> tx.games, possessions |-> tx.possessions] ELSE tables

\* faulty variant: rows are replaced by client id only, as an upsert would, so the
\* rows of possessions no longer in memory stay
sync_game_upsert(game, today, fail_at) ==
    LET game_rows == UpsertGameRow(db_games, db_seq, game, today)
        game_id == GameRowId(game_rows, game.id)
        rows == SyncRows(game, game_id, today)
        ids == {rows[i].client_id : i \in 1..Len(rows)}
    IN [ok |-> TRUE,
        raised |-> None,
        games |-> game_rows,
        possessions |-> {r \in db_possessions : r.client_id \notin ids}
                            \cup {rows[i] : i \in 1..Len(rows)},
        synced |-> Len(rows)]

\* the statements of sync_game inside its transaction: 1 the game upsert, 2 the
\* SELECT, 3 the DELETE, 3 + i the INSERT of the i-th possession.  Statement
\* fail_at raises (None: the store raises nowhere), and so does the first INSERT
\* that violates UNIQUE (client_id); the result holds the tables as the
\* statements before the raising one left them, and the count returned
sync_game(game, today, fail_at) ==
    LET game_rows == UpsertGameRow(db_games, db_seq, game, today)
        game_id == GameRowId(game_rows, game.id)
        kept == DeletePossessionRows(db_possessions, game_id)
        rows == SyncRows(game, game_id, today)
        raising == {3 + i : i \in {j \in 1..Len(rows) :
                                    SyncConflict(kept, SubSeq(rows, 1, j))}}
                   \cup (IF fail_at = None THEN {} ELSE {fail_at})
                   \cup {3 + Len(rows) + 1}
        done == SetMin(raising) - 1
    IN [ok |-> done = 3 + Len(rows),
        raised |-> IF done = 3 + Len(rows) THEN None ELSE done + 1,
        games |-> IF done >= 1 THEN game_rows ELSE db_games,
        possessions |-> (IF done >= 3 THEN kept ELSE db_possessions)
                            \cup {rows[i] : i \in 1..(done - 3)},
        synced |-> Max(0, done - 3)]

\* faulty variant: the game row is deleted before its possession rows
delete_game_gamefirst(client_id, fail_at) ==
    LET db_id == GameRowId(db_games, client_id)
        s0 == [games |-> db_games, possessions |-> db_possessions]
        s1 == [games |-> {r \in db_games : r.id # db_id},
               possessions |-> db_possessions]
        s2 == [games |-> s1.games,
               possessions |-> DeletePossessionRows(db_possessions, db_id)]
        all == IF db_id = None THEN <<s0>> ELSE <<s0, s1, s2>>
        done == IF fail_at # None /\ fail_at <= Len(all) THEN fail_at - 1 ELSE Len(all)
    IN [ok |-> done = Len(all),
        raised |-> IF done = Len(all) THEN None ELSE done + 1,
        games |-> IF done = 0 THEN db_games ELSE all[done].games,
        possessions |-> IF done = 0 THEN db_possessions ELSE all[done].possessions,
        steps |-> SubSeq(all, 1, done),
        db_id |-> db_id]

\* the statements of delete_game inside its transaction: 1 the SELECT, then,
\* when a row matched, 2 the DELETE of the possession rows and 3 the DELETE of
\* the game row.  Statement fail_at raises (None: the store raises nowhere);
\* `steps` holds the tables as each statement that ran left them
delete_game(client_id, fail_at) ==
    LET db_id == GameRowId(db_games, client_id)
        s0 == [games |-> db_games, possessions |-> db_possessions]
        s1 == [games |-> db_games,
               possessions |-> DeletePossessionRows(db_possessions, db_id)]
        s2 == [games |-> {r \in db_games : r.id # db_id},
               possessions |-> s1.possessions]
        all == IF db_id = None THEN <<s0>> ELSE <<s0, s1, s2>>
        done == IF fail_at # None /\ fail_at <= Len(all) THEN fail_at - 1 ELSE Len(all)
    IN [ok |-> done = Len(all),
        raised |-> IF done = Len(all) THEN None ELSE done + 1,
        games |-> IF done = 0 THEN db_games ELSE all[done].games,
        possessions |-> IF done = 0 THEN db_possessions ELSE all[done].possessions,
        steps |-> SubSeq(all, 1, done),
        db_id |-> db_id]

\* the in-memory possession load_games builds from a row
LoadedPossession(row) ==
    [id |-> row.client_id,
     number |-> row.number,
     quarter |-> row.quarter,
     paint_touch |-> row.paint_touch,
     transition |-> (row.transition = 1),
     points |-> row.points,
     outcome |-> row.outcome,
     defense |-> OrEmpty(row.defense),
     shot_quality |-> OrEmpty(row.shot_quality),
     timestamp |-> row.timestamp]

\* the rows load_games selects for a game
RowsRead(game_id) ==
    {r \in db_possessions : r.game_id = game_id /\ TrackerRead(r.tracker)}

\* the rows that can survive the dedup loop for (q, number): the loop keeps the
\* first row, in the order of the result set, that carries the greatest
\* timestamp, and ORDER BY quarter, number leaves the order of such rows open
\* faulty variant: the row with the smallest timestamp survives
Winners_oldest(game_id, q, number) ==
    LET same == {r \in RowsRead(game_id) : r.quarter = q /\ r.number = number}
    IN {r \in same : \A o \in same : r.timestamp <= o.timestamp}

Winners(game_id, q, number) ==
    LET same == {r \in RowsRead(game_id) : r.quarter = q /\ r.number = number}
    IN {r \in same : \A o \in same : o.timestamp <= r.timestamp}

SlotKeys(game_id) == {<<r.quarter, r.number>> : r \in RowsRead(game_id)}

KeyLess(a, b) == a[1] < b[1] \/ (a[1] = b[1] /\ a[2] < b[2])

\* sorted(deduped.values(), key=(quarter, number))
RECURSIVE SortedKeys(_)
SortedKeys(keys) ==
    IF keys = {} THEN <<>>
    ELSE LET k == CHOOSE x \in keys : \A y \in keys : x = y \/ KeyLess(x, y)
         IN <<k>> \o SortedKeys(keys \ {k})

\* the ways the result sets of one load can be ordered among equal keys
LoadPicks ==
    LET keys == {<<g.id, k>> : g \in db_games, k \in UNION {SlotKeys(h.id) : h \in db_games}}
        live == {x \in keys : x[2] \in SlotKeys(x[1])}
    IN {f \in [live -> db_possessions] :
            \A x \in live : f[x] \in Winners(x[1], x[2][1], x[2][2])}

\* ORDER BY created_at DESC, id DESC
RECURSIVE GameRowsOrdered(_)
GameRowsOrdered(rows) ==
    IF rows = {} THEN <<>>
    ELSE LET r == CHOOSE x \in rows : \A y \in rows :
                    \/ x.created_at > y.created_at
                    \/ (x.created_at = y.created_at /\ x.id >= y.id)
         IN <<r>> \o GameRowsOrdered(rows \ {r})

load_games(pick) ==
    LET rows == GameRowsOrdered(db_games)
    IN [i \in 1..Len(rows) |->
            LET keys == SortedKeys(SlotKeys(rows[i].id))
            IN [id |-> rows[i].client_id,
                name |-> rows[i].name,
                opponent |-> rows[i].opponent,
                date |-> rows[i].game_date,
                possessions |->
                    [j \in 1..Len(keys) |->
                        LoadedPossession(pick[<<rows[i].id, keys[j]>>])]]]

----------------------------------------------------------------------------
(* Startup load and Sync to DB *)

\* faulty variant: an engine is handed out without a connection string
get_engine_always == TRUE

\* None without DATABASE_URL, the engine otherwise
get_engine == engine

\* the first script run of a session: with a store and no game in memory the
\* games are loaded; a failing store leaves the session as it is
StartupLoad(ok, pick) ==
    /\ ~db_loaded
    /\ IF get_engine /\ games = <<>> /\ ok
       THEN /\ games' = load_games(pick)
            /\ active_game_id' =
                    IF load_games(pick) # <<>> /\ active_game_id = None
                    THEN load_games(pick)[1].id ELSE active_game_id
       ELSE UNCHANGED <<games, active_game_id>>
    /\ db_loaded' = TRUE
    /\ last' = [op |-> "load", ok |-> (get_engine /\ games = <<>>) => ok,
                loaded |-> get_engine /\ games = <<>> /\ ok,
                trip |-> IF last.op = "reload" THEN last.trip ELSE <<>>]
    /\ UNCHANGED <<rows_by_quarter, quarter, pending_delete_game_id, nextGame,
                   nextPoss, storeVars, calls, widget_state>>

\* the Sync to DB button, shown while the active game holds a possession; a
\* SQLAlchemyError raised inside sync_game is caught and reported
SyncToDb(fail_at, today) ==
    /\ db_loaded
    /\ ActiveIndex # 0
    /\ ActivePossessions # <<>>
    /\ LET game == games[ActiveIndex]
           tx == sync_game(game, today, fail_at)
           tables == IF get_engine
                     THEN Transaction([games |-> db_games,
                                       possessions |-> db_possessions], tx)
                     ELSE [games |-> db_games, possessions |-> db_possessions]
       IN /\ db_games' = tables.games
          /\ db_possessions' = tables.possessions
          /\ db_seq' = IF \E r \in tables.games : r.id = db_seq
                       THEN db_seq + 1 ELSE db_seq
          /\ last' = [op |-> "sync", game |-> game.id,
                      result |-> IF ~get_engine THEN "no engine"
                                 ELSE IF tx.ok THEN "success" ELSE "failed",
                      raised |-> IF get_engine THEN tx.raised ELSE None,
                      synced |-> IF get_engine /\ tx.ok THEN tx.synced ELSE None,
                      stale |-> Cardinality(
                            {r \in db_possessions :
                                /\ r.game_id = GameRowId(db_games, game.id)
                                /\ \A i \in 1..Len(game.possessions) :
                                        game.possessions[i].id # r.client_id})]
    /\ UNCHANGED <<sessionVars, engine, calls, widget_state>>

\* the Delete button of the i-th game of the sidebar
DeleteButton(i) ==
    /\ db_loaded
    /\ i \in 1..Len(games)
    /\ pending_delete_game_id' = games[i].id
    /\ last' = [op |-> "delete_game", game |-> games[i].id]
    /\ UNCHANGED <<games, active_game_id, rows_by_quarter, quarter, db_loaded,
                   nextGame, nextPoss, storeVars, calls, widget_state>>

\* faulty variant: the confirmation is offered for every game
ConfirmShown_always(id) == id = id

\* Confirm delete and Cancel are rendered under the game that is pending
ConfirmShown(id) == pending_delete_game_id = id

CancelDelete(i) ==
    /\ db_loaded
    /\ i \in 1..Len(games)
    /\ ConfirmShown(games[i].id)
    /\ pending_delete_game_id' = None
    /\ last' = [op |-> "cancel", game |-> games[i].id]
    /\ UNCHANGED <<games, active_game_id, rows_by_quarter, quarter, db_loaded,
                   nextGame, nextPoss, storeVars, calls, widget_state>>

\* faulty variant: the game at the front is dropped
RemoveGame_front(gs, id) == Tail(gs)

\* [g for g in games if g["id"] != id]
RemoveGame(gs, id) == SelectSeq(gs, LAMBDA g : g.id # id)

\* faulty variant: the selection is left as it is
ActiveAfterDelete_keep(gs, active, id) == active

\* the active selection once game id is gone and gs are the games left
ActiveAfterDelete(gs, active, id) ==
    IF active = id THEN (IF gs # <<>> THEN gs[1].id ELSE None) ELSE active

\* faulty variant: a store delete that raises ends the handler, the game and
\* the pending marker stay
ConfirmDelete_abort(i, fail_at) ==
    /\ db_loaded
    /\ i \in 1..Len(games)
    /\ ConfirmShown(games[i].id)
    /\ LET id == games[i].id
           tx == delete_game(id, fail_at)
           tables == IF get_engine
                     THEN Transaction([games |-> db_games,
                                       possessions |-> db_possessions], tx)
                     ELSE [games |-> db_games, possessions |-> db_possessions]
           failed == get_engine /\ ~tx.ok
       IN /\ db_games' = tables.games
          /\ db_possessions' = tables.possessions
          /\ games' = IF failed THEN games ELSE RemoveGame(games, id)
          /\ active_game_id' =
                IF failed THEN active_game_id
                ELSE ActiveAfterDelete(RemoveGame(games, id), active_game_id, id)
          /\ pending_delete_game_id' = IF failed THEN pending_delete_game_id ELSE None
          /\ last' = [op |-> "confirm", game |-> id,
                      pending |-> pending_delete_game_id,
                      active |-> active_game_id,
                      result |-> IF ~get_engine THEN "no engine"
                                 ELSE IF tx.ok THEN "success" ELSE "failed",
                      raised |-> IF get_engine THEN tx.raised ELSE None,
                      steps |-> IF get_engine THEN tx.steps ELSE <<>>,
                      db_id |-> tx.db_id]
    /\ UNCHANGED <<rows_by_quarter, quarter, db_loaded, nextGame, nextPoss,
                   engine, db_seq, calls, widget_state>>

\* the Confirm delete button of the i-th game: the store delete when there is
\* an engine, its SQLAlchemyError caught and reported, then the game is taken
\* out of the session
ConfirmDelete(i, fail_at) ==
    /\ db_loaded
    /\ i \in 1..Len(games)
    /\ ConfirmShown(games[i].id)
    /\ LET id == games[i].id
           tx == delete_game(id, fail_at)
           tables == IF get_engine
                     THEN Transaction([games |-> db_games,
                                       possessions |-> db_possessions], tx)
                     ELSE [games |-> db_games, possessions |-> db_possessions]
       IN /\ db_games' = tables.games
          /\ db_possessions' = tables.possessions
          /\ games' = RemoveGame(games, id)
          /\ active_game_id' = ActiveAfterDelete(RemoveGame(games, id), active_game_id, id)
          /\ pending_delete_game_id' = None
          /\ last' = [op |-> "confirm", game |-> id,
                      pending |-> pending_delete_game_id,
                      active |-> active_game_id,
                      result |-> IF ~get_engine THEN "no engine"
                                 ELSE IF tx.ok THEN "success" ELSE "failed",
                      raised |-> IF get_engine THEN tx.raised ELSE None,
                      steps |-> IF get_engine THEN tx.steps ELSE <<>>,
                      db_id |-> tx.db_id]
    /\ UNCHANGED <<rows_by_quarter, quarter, db_loaded, nextGame, nextPoss,
                   engine, db_seq, calls, widget_state>>

\* the browser session ends and a new one starts: session state is set to its
\* defaults again, the store stays.  uuid4() keeps drawing fresh ids.  `trip`
\* remembers the game a sync has just written, as it stood in memory
Reload ==
    /\ db_loaded
    /\ games' = <<>>
    /\ active_game_id' = None
    /\ rows_by_quarter' = <<>>
    /\ quarter' = 1
    /\ db_loaded' = FALSE
    /\ pending_delete_game_id' = None
    /\ last' = [op |-> "reload",
                trip |-> IF last.op = "sync" /\ last.result = "success"
                         THEN <<games[ActiveIndex]>> ELSE <<>>]
    /\ UNCHANGED <<nextGame, nextPoss, storeVars, calls, widget_state>>

----------------------------------------------------------------------------
(* Analytics: render_analytics, defense_breakdown, streaks *)

\* p.get("points") or 0
PointsOr0(p) == IF p.points = None THEN 0 ELSE p.points

\* possession.get("paint_touch") and (possession.get("points") or 0) > 0
Made(p) == p.paint_touch /\ PointsOr0(p) > 0

\* faulty variant: every match from the third on adds one
RECURSIVE StreakLoop_every(_, _, _)
StreakLoop_every(possessions, streak, total) ==
    IF possessions = <<>> THEN total
    ELSE IF Made(Head(possessions))
         THEN StreakLoop_every(Tail(possessions), streak + 1,
                               IF streak + 1 >= 3 THEN total + 1 ELSE total)
         ELSE StreakLoop_every(Tail(possessions), 0, total)

\* the loop of count_paint_touch_three_make_streaks over the possessions left
RECURSIVE StreakLoop(_, _, _)
StreakLoop(possessions, streak, total) ==
    IF possessions = <<>> THEN total
    ELSE IF Made(Head(possessions))
         THEN StreakLoop(Tail(possessions), streak + 1,
                         IF streak + 1 = 3 THEN total + 1 ELSE total)
         ELSE StreakLoop(Tail(possessions), 0, total)

count_paint_touch_three_make_streaks(possessions) == StreakLoop(possessions, 0, 0)

\* faulty variant: the quotient is truncated
RoundDiv_floor(n, d) == n \div d

\* round(n / d) for n >= 0 and d > 0: the nearest integer, a tie goes to the
\* even one.  For the counts of a game (below 40) the float quotient of the
\* code is a tie exactly when n / d is
RoundDiv(n, d) ==
    LET q == n \div d
        r == n % d
    IN IF 2 * r < d THEN q
       ELSE IF 2 * r > d THEN q + 1
       ELSE IF q % 2 = 0 THEN q ELSE q + 1

\* the division n / d of Python: ZeroDivisionError when d = 0
Quotient(n, d) ==
    IF d = 0 THEN [raised |-> TRUE, value |-> 0]
    ELSE [raised |-> FALSE, value |-> RoundDiv(n, d)]

\* faulty variant: the division is made whatever the denominator
Pct_unguarded(count, total) == Quotient(count * 100, total)

\* round((count / total) * 100) if total else 0
Pct(count, total) ==
    IF total # 0 THEN Quotient(count * 100, total) ELSE [raised |-> FALSE, value |-> 0]

\* round(points / total, 2) if total else 0, in hundredths
Ppp(points, total) ==
    IF total # 0 THEN Quotient(points * 100, total) ELSE [raised |-> FALSE, value |-> 0]

\* sum(p.get("points") or 0 for p in possessions)
RECURSIVE SumPoints(_)
SumPoints(possessions) ==
    IF possessions = <<>> THEN 0
    ELSE PointsOr0(Head(possessions)) + SumPoints(Tail(possessions))

\* str.lower() on the values a defense field takes
Lower(x) ==
    CASE x = "Man" -> "man"
      [] x = "Zone" -> "zone"
      [] OTHER -> x

defense_breakdown(possessions, defense) ==
    LET filtered == SelectSeq(possessions, LAMBDA p : Lower(OrEmpty(p.defense)) = defense)
        total == Len(filtered)
        paint == Len(SelectSeq(filtered, LAMBDA p : p.paint_touch))
        points == SumPoints(filtered)
    IN [total |-> total, paint_rate |-> Pct(paint, total), ppp |-> Ppp(points, total)]

\* faulty variant: the possessions are left in the order of the list
SortedByKey_asis(possessions) == possessions

\* sorted(possessions, key=(quarter, number)): a stable insertion sort
RECURSIVE SortedByKey(_)
SortedByKey(possessions) ==
    IF possessions = <<>> THEN <<>>
    ELSE LET n == Len(possessions)
             p == possessions[n]
             front == SortedByKey(SubSeq(possessions, 1, n - 1))
             before == SelectSeq(front, LAMBDA o :
                            ~KeyLess(<<p.quarter, p.number>>, <<o.quarter, o.number>>))
             after == SelectSeq(front, LAMBDA o :
                            KeyLess(<<p.quarter, p.number>>, <<o.quarter, o.number>>))
         IN before \o <<p>> \o after

\* the possessions of the scope chosen by the half and quarter filters
analytics_possessions(possessions, quarter_filter, half_filter) ==
    SortedByKey(
        IF half_filter = 1 THEN SelectSeq(possessions, LAMBDA p : p.quarter \in {1, 2})
        ELSE IF half_filter = 2 THEN SelectSeq(possessions, LAMBDA p : p.quarter \in {3, 4})
        ELSE IF quarter_filter = None THEN possessions
        ELSE SelectSeq(possessions, LAMBDA p : p.quarter = quarter_filter))

\* the figures render_analytics shows for a game
render_analytics(possessions, quarter_filter, half_filter) ==
    LET scope == analytics_possessions(possessions, quarter_filter, half_filter)
        total == Len(scope)
        transition_possessions == SelectSeq(scope, LAMBDA p : p.transition)
        transition_total == Len(transition_possessions)
        paint_touch_possessions == SelectSeq(scope, LAMBDA p : p.paint_touch)
        non_paint_possessions == SelectSeq(scope, LAMBDA p : ~p.paint_touch)
        paint_touches == Len(paint_touch_possessions)
        non_paint_total == total - paint_touches
        Scores(ps) == Len(SelectSeq(ps, LAMBDA p : PointsOr0(p) > 0))
        OutcomePct(key) ==
            Pct(Len(SelectSeq(paint_touch_possessions, LAMBDA p : p.outcome = key)),
                paint_touches)
    IN [total |-> total,
        paint_rate |-> Pct(paint_touches, total),
        ppp |-> Ppp(SumPoints(scope), total),
        transition_rate |-> Pct(transition_total, total),
        transition_ppp |-> Ppp(SumPoints(transition_possessions), transition_total),
        transition_score_rate |-> Pct(Scores(transition_possessions), transition_total),
        paint_score_rate |-> Pct(Scores(paint_touch_possessions), paint_touches),
        non_paint_score_rate |-> Pct(Scores(non_paint_possessions), non_paint_total),
        paint_touch_3_streaks |-> count_paint_touch_three_make_streaks(scope),
        rim_make_pct |-> OutcomePct("shot_at_rim_make"),
        kick_out_pct |-> OutcomePct("kick_out_3_make"),
        foul_drawn_pct |-> OutcomePct("foul_drawn"),
        man |-> defense_breakdown(scope, "man"),
        zone |-> defense_breakdown(scope, "zone"),
        quarter_stats |->
            [q \in QUARTERS |->
                LET ps == SelectSeq(possessions, LAMBDA p : p.quarter = q)
                    paint_q == Len(SelectSeq(ps, LAMBDA p : p.paint_touch))
                    paint_scores_q == Len(SelectSeq(ps, LAMBDA p : Made(p)))
                IN [paint_rate |-> Pct(paint_q, Len(ps)),
                    paint_score_rate |-> Pct(paint_scores_q, paint_q)]]]

\* the analytics panel of a script run, for the scope the scorer chose
RenderAnalytics(quarter_filter, half_filter) ==
    /\ db_loaded
    /\ ActiveIndex # 0
    /\ last' = [op |-> "analytics", quarter_filter |-> quarter_filter,
                half_filter |-> half_filter,
                stats |-> render_analytics(ActivePossessions, quarter_filter, half_filter)]
    /\ UNCHANGED <<sessionVars, storeVars, calls, widget_state>>

----------------
(* Bounded sessions *)

PaintChoices == {0, 1}

\* the quarters the scorer visits
QuarterChoices == {1, 2}

\* a new record may still be created in row `number`
CanFill(number) == EntryIndex(number) # 0 \/ nextPoss < FirstPossId + MaxPoss

\* the quarter's row count may still shrink
CanShrink == get_rows_for_quarter(quarter) > DEFAULT_ROWS - MaxShrink

\* Spec: one game, its ledger edited through the rows of the tracker
Next ==
    \/ ~db_loaded /\ \E pick \in LoadPicks : StartupLoad(TRUE, pick)
    \/ \E n \in NameChoices, o \in OpponentChoices, d \in DateChoices :
            games = <<>> /\ CreateGame(n, o, d)
    \/ \E q \in QuarterChoices : SelectQuarter(q)
    \/ \E number \in 1..MaxSlot, c \in PaintChoices :
            RowShown(number) /\ CanFill(number) /\ PaintWidget(number, c)
    \/ \E number \in 1..MaxSlot : CanShrink /\ DeletePossessionButton(number)

Spec == Init /\ [][Next]_vars

\* the quarter's row count may still grow
CanGrow == get_rows_for_quarter(quarter) < DEFAULT_ROWS + MaxGrow

\* SpecRows: several games, rows added and deleted down to the floor, no
\* record filled
NextRows ==
    \/ ~db_loaded /\ \E pick \in LoadPicks : StartupLoad(TRUE, pick)
    \/ \E n \in NameChoices, o \in OpponentChoices, d \in DateChoices :
            Len(games) < MaxGames /\ CreateGame(n, o, d)
    \/ \E i \in 1..MaxGames : SelectGame(i)
    \/ \E q \in QuarterChoices : SelectQuarter(q)
    \/ \E number \in 1..MaxSlot : DeletePossessionButton(number)
    \/ CanGrow /\ AddPossessionRow

SpecRows == Init /\ [][NextRows]_vars

\* the update maps passed to update_possession: the maps the widgets pass and
\* maps a direct caller may pass
UpdateChoices ==
    {[paint_touch |-> TRUE],
     [points |-> 2],
     [transition |-> TRUE, defense |-> "zone"],
     [shot_quality |-> "good", outcome |-> "turnover"],
     [points |-> 7],
     [defense |-> "box"],
     [quarter |-> 2],
     [number |-> 2]}

\* a game as Create game leaves it, active, in front of an earlier game that
\* holds a possession in row 1 of quarter 1
InitApi ==
    /\ games = <<[id |-> 2, name |-> <<"a">>, opponent |-> "", date |-> "2026-01-01",
                  possessions |-> <<>>],
                 [id |-> 1, name |-> <<"a">>, opponent |-> "", date |-> "2026-01-01",
                  possessions |->
                    <<DictUpdate(NewPossession(FirstPossId, 1, 1),
                                 [paint_touch |-> TRUE])>>]>>
    /\ active_game_id = 2
    /\ rows_by_quarter = <<>>
    /\ quarter = 1
    /\ db_loaded = TRUE
    /\ pending_delete_game_id = None
    /\ nextGame = 3
    /\ nextPoss = FirstPossId + 1
    /\ calls = 0
    /\ widget_state = <<>>
    /\ last = [op |-> "init"]
    /\ engine = FALSE
    /\ db_games = {}
    /\ db_possessions = {}
    /\ db_seq = 1

\* SpecApi: update_possession and delete_possession called on one game
NextApi ==
    \/ \E number \in 1..MaxSlot, u \in UpdateChoices :
            calls < MaxCalls /\ ApiUpdatePossession(1, number, u)
    \/ \E number \in 1..MaxSlot :
            calls < MaxCalls /\ ApiDeletePossession(1, number)

SpecApi == InitApi /\ [][NextApi]_vars

\* the store a session finds: empty, or left by earlier sessions and by the
\* other trackers that share the possessions table
StoredGame(id, client_id, created_at) ==
    [id |-> id, client_id |-> client_id, name |-> <<"a">>, opponent |-> NULL,
     game_date |-> "2026-01-01", created_at |-> created_at]

StoredRow(client_id, game_id, number, paint_touch, tracker, timestamp) ==
    [client_id |-> client_id, game_id |-> game_id, number |-> number, quarter |-> 1,
     paint_touch |-> paint_touch, transition |-> None, points |-> 2,
     outcome |-> NULL, defense |-> NULL, shot_quality |-> NULL,
     tracker |-> tracker, timestamp |-> timestamp]

StoreChoices ==
    {[games |-> {}, possessions |-> {}],
     [games |-> {StoredGame(1, 901, 1)},
      possessions |-> {StoredRow(801, 1, 1, TRUE, "paint", 1),
                       StoredRow(802, 1, 1, FALSE, NULL, 2),
                       StoredRow(803, 1, 2, TRUE, "shot", 1)}],
     [games |-> {StoredGame(1, 901, 1), StoredGame(2, 902, 1)},
      possessions |-> {StoredRow(804, 2, 1, TRUE, "", 1),
                       StoredRow(805, 2, 1, FALSE, "paint", 1)}]}

DayChoices == {2}

\* the statement of sync_game at which the store raises, None for nowhere
SyncFailChoices == {None, 1, 3, 4, 5}

\* the Paint Touch choice made in a session with a store
StorePaintChoices == {1}

InitStore ==
    /\ InitSession
    /\ engine = TRUE
    /\ \E store \in StoreChoices :
            /\ db_games = store.games
            /\ db_possessions = store.possessions
            /\ db_seq = Cardinality(store.games) + 1

\* SpecStore: a session with a store: startup load, row edits and deletes in
\* the tracker, Sync to DB
NextStore ==
    \/ ~db_loaded /\ \E ok \in BOOLEAN, pick \in LoadPicks : StartupLoad(ok, pick)
    \/ \E n \in NameChoices, o \in OpponentChoices, d \in DateChoices :
            games = <<>> /\ CreateGame(n, o, d)
    \/ \E i \in 1..Len(games) : SelectGame(i)
    \/ \E number \in 1..MaxSlot, c \in StorePaintChoices :
            RowShown(number) /\ CanFill(number) /\ PaintWidget(number, c)
    \/ \E number \in 1..MaxSlot : CanShrink /\ DeletePossessionButton(number)
    \/ \E fail_at \in {None, 1}, today \in DayChoices : SyncToDb(fail_at, today)

SpecStore == InitStore /\ [][NextStore]_vars

\* the statement of delete_game at which the store raises, None for nowhere
DeleteFailChoices == {None, 1, 2, 3}

\* a session with or without a store
InitRegistry ==
    /\ InitSession
    /\ engine \in BOOLEAN
    /\ \E store \in StoreChoices :
            /\ db_games = store.games
            /\ db_possessions = store.possessions
            /\ db_seq = Cardinality(store.games) + 1

\* SpecRegistry: the games of the sidebar: loaded, created, selected, deleted
NextRegistry ==
    \/ ~db_loaded /\ \E ok \in BOOLEAN, pick \in LoadPicks : StartupLoad(ok, pick)
    \/ \E n \in NameChoices, o \in OpponentChoices, d \in DateChoices :
            nextGame <= MaxGames /\ CreateGame(n, o, d)
    \/ \E i \in 1..Len(games) : SelectGame(i)
    \/ \E i \in 1..Len(games) : DeleteButton(i)
    \/ \E i \in 1..Len(games) : CancelDelete(i)
    \/ \E i \in 1..Len(games), fail_at \in DeleteFailChoices : ConfirmDelete(i, fail_at)

SpecRegistry == InitRegistry /\ [][NextRegistry]_vars

\* a session without a connection string, beside a store that holds a game
InitOffline ==
    /\ InitSession
    /\ engine = FALSE
    /\ \E store \in {c \in StoreChoices : Cardinality(c.games) = 1} :
            /\ db_games = store.games
            /\ db_possessions = store.possessions
            /\ db_seq = Cardinality(store.games) + 1

\* SpecOffline: every button of the page pressed without a connection string
NextOffline ==
    \/ ~db_loaded /\ \E ok \in BOOLEAN, pick \in LoadPicks : StartupLoad(ok, pick)
    \/ \E n \in {<<" ">>, <<" ", "a", " ">>}, o \in OpponentChoices, d \in DateChoices :
            nextGame <= MaxGames /\ CreateGame(n, o, d)
    \/ \E i \in 1..Len(games) : SelectGame(i)
    \/ \E number \in 1..MaxSlot, c \in StorePaintChoices :
            RowShown(number) /\ CanFill(number) /\ PaintWidget(number, c)
    \/ \E number \in 1..MaxSlot :
            /\ RowShown(number) /\ EntryIndex(number) # 0
            /\ CanShrink /\ DeletePossessionButton(number)
    \/ CanGrow /\ AddPossessionRow
    \/ \E fail_at \in {None, 1}, today \in DayChoices : SyncToDb(fail_at, today)
    \/ \E i \in 1..Len(games) : DeleteButton(i)
    \/ \E i \in 1..Len(games), fail_at \in {None, 1} : ConfirmDelete(i, fail_at)

SpecOffline == InitOffline /\ [][NextOffline]_vars

\* SpecFail: a session on a store that may raise at any statement
NextFail ==
    \/ ~db_loaded /\ \E ok \in BOOLEAN, pick \in LoadPicks : StartupLoad(ok, pick)
    \/ \E n \in NameChoices, o \in OpponentChoices, d \in DateChoices :
            games = <<>> /\ nextGame <= MaxGames /\ CreateGame(n, o, d)
    \/ \E number \in 1..MaxSlot, c \in StorePaintChoices :
            RowShown(number) /\ CanFill(number) /\ PaintWidget(number, c)
    \/ \E fail_at \in SyncFailChoices, today \in DayChoices : SyncToDb(fail_at, today)
    \/ \E i \in 1..Len(games) : DeleteButton(i)
    \/ \E i \in 1..Len(games), fail_at \in DeleteFailChoices : ConfirmDelete(i, fail_at)

\* a session on an empty store or on a store that holds one game
InitFail ==
    /\ InitSession
    /\ engine = TRUE
    /\ \E store \in {c \in StoreChoices : Cardinality(c.games) <= 1} :
            /\ db_games = store.games
            /\ db_possessions = store.possessions
            /\ db_seq = Cardinality(store.games) + 1

SpecFail == InitFail /\ [][NextFail]_vars

\* the values of a logged possession: paint_touch, transition, points,
\* defense, outcome
StatKind(paint_touch, transition, points, defense, outcome) ==
    [paint_touch |-> paint_touch, transition |-> transition, points |-> points,
     defense |-> defense, outcome |-> outcome]

StatKinds ==
    {StatKind(TRUE, FALSE, 2, "man", "shot_at_rim_make"),
     StatKind(TRUE, TRUE, 0, "zone", "turnover"),
     StatKind(FALSE, FALSE, 3, "", "kick_out_3_make"),
     StatKind(FALSE, TRUE, None, "Zone", ""),
     StatKind(TRUE, FALSE, None, "", "")}

StreakKinds ==
    {StatKind(TRUE, FALSE, 2, "man", "shot_at_rim_make"),
     StatKind(TRUE, FALSE, 0, "man", "shot_at_rim_miss"),
     StatKind(FALSE, FALSE, 3, "zone", "kick_out_3_make")}

\* the quarters the logged possessions belong to
StatQuarters == {1, 3}

\* the possessions logged one after the other with the values and quarters of
\* `entries`, each in the next free row of its quarter
Logged(entries) ==
    [i \in 1..Len(entries) |->
        [id |-> FirstPossId + i - 1,
         quarter |-> entries[i][2],
         number |-> Cardinality({j \in 1..i : entries[j][2] = entries[i][2]}),
         paint_touch |-> entries[i][1].paint_touch,
         transition |-> entries[i][1].transition,
         points |-> entries[i][1].points,
         outcome |-> entries[i][1].outcome,
         defense |-> entries[i][1].defense,
         shot_quality |-> ""]]

\* a session whose active game holds the possessions logged from `entries`
InitLogged(entries) ==
    /\ games = <<[id |-> 1, name |-> <<"a">>, opponent |-> "", date |-> "2026-01-01",
                  possessions |-> Logged(entries)]>>
    /\ active_game_id = 1
    /\ rows_by_quarter = <<>>
    /\ quarter = 1
    /\ db_loaded = TRUE
    /\ pending_delete_game_id = None
    /\ nextGame = 2
    /\ nextPoss = FirstPossId + Len(entries)
    /\ calls = 0
    /\ widget_state = <<>>
    /\ last = [op |-> "init"]
    /\ engine = FALSE
    /\ db_games = {}
    /\ db_possessions = {}
    /\ db_seq = 1

\* the scopes of the analytics panel: (quarter_filter, half_filter)
ViewChoices ==
    {<<None, None>>, <<None, 1>>, <<None, 2>>,
     <<1, None>>, <<2, None>>, <<3, None>>, <<4, None>>}

\* SpecStats: the figures of games of up to MaxLen possessions
InitStats ==
    \E n \in 0..MaxLen : \E entries \in [1..n -> StatKinds \X StatQuarters] :
        InitLogged(entries)

NextStats == \E view \in ViewChoices : RenderAnalytics(view[1], view[2])

SpecStats == InitStats /\ [][NextStats]_vars

\* SpecStreak: the streaks of a quarter of up to MaxRun possessions
InitStreak ==
    \E n \in 0..MaxRun : \E entries \in [1..n -> StreakKinds \X {1}] :
        InitLogged(entries)

NextStreak == RenderAnalytics(1, None)

SpecStreak == InitStreak /\ [][NextStreak]_vars

\* the values of the possessions entered out of order: paint touches, scored or not
OrderKinds == {k \in StreakKinds : k.paint_touch}

\* the rows of a game that holds n possessions, m of them in quarter 1 and the
\* others in quarter 2, as (quarter, number)
FilledRows(n, m) == {<<1, k>> : k \in 1..m} \cup {<<2, k>> : k \in 1..(n - m)}

\* the ledger after the rows `order` were filled one after the other, row r
\* with the values kind[r]: update_possession appends each new record
Entered(order, kind) ==
    [i \in 1..Len(order) |->
        [id |-> FirstPossId + i - 1,
         quarter |-> order[i][1],
         number |-> order[i][2],
         paint_touch |-> kind[order[i]].paint_touch,
         transition |-> kind[order[i]].transition,
         points |-> kind[order[i]].points,
         outcome |-> kind[order[i]].outcome,
         defense |-> kind[order[i]].defense,
         shot_quality |-> ""]]

\* a session whose active game had its rows filled in any order, one of them
\* at most in quarter 2
InitOrder ==
    \E n \in 0..MaxOrder, m \in 0..MaxOrder :
        /\ m <= n /\ n <= m + 1
        /\ \E order \in {f \in [1..n -> FilledRows(n, m)] :
                            \A i, j \in 1..n : f[i] = f[j] => i = j},
              kind \in [FilledRows(n, m) -> OrderKinds] :
                /\ games = <<[id |-> 1, name |-> <<"a">>, opponent |-> "",
                              date |-> "2026-01-01",
                              possessions |-> Entered(order, kind)]>>
                /\ nextPoss = FirstPossId + n
        /\ active_game_id = 1
        /\ rows_by_quarter = <<>>
        /\ quarter = 1
        /\ db_loaded = TRUE
        /\ pending_delete_game_id = None
        /\ nextGame = 2
        /\ calls = 0
        /\ widget_state = <<>>
        /\ last = [op |-> "init"]
        /\ engine = FALSE
        /\ db_games = {}
        /\ db_possessions = {}
        /\ db_seq = 1

\* the scopes looked at: full game, first half, quarter 1
OrderViews == {<<None, None>>, <<None, 1>>, <<1, None>>}

\* SpecOrder: the analytics of ledgers filled in any order, rows deleted
NextOrder ==
    \/ \E view \in OrderViews : RenderAnalytics(view[1], view[2])
    \/ \E number \in 1..MaxOrder : CanShrink /\ DeletePossessionButton(number)

SpecOrder == InitOrder /\ [][NextOrder]_vars

\* A script run as a whole: the handler of the widget the scorer used, then the
\* row loop over the Paint Touch radios of the page.  A radio is keyed
\* paint_{quarter}_{number}; widget_state holds, per key, the index it was
\* rendered with and the value it returned in the last run, for the radios
\* that returned a value.

\* the record row `number` of quarter q shows, as possession_map builds it
MapIndex(possessions, q, number) ==
    LET found == SlotIndices(possessions, q, number)
    IN IF found = {} THEN 0 ELSE CHOOSE i \in found : \A j \in found : j <= i

\* paint_index: None for a blank row, else 1 or 0 after the record
PaintIndex(possessions, q, number) ==
    IF MapIndex(possessions, q, number) = 0 THEN None
    ELSE IF possessions[MapIndex(possessions, q, number)].paint_touch THEN 1 ELSE 0

\* what st.radio returns for the radio `key` rendered with `index`: the
\* scorer's click of this run; else the value the same radio returned in the
\* last run; else, for a key last rendered with another index, the old value
\* or the default as the widget library identifies radios (keep); else the
\* default, options[index]
RadioValue(W, key, index, click, keep) ==
    IF key \in DOMAIN click THEN click[key]
    ELSE IF key \in DOMAIN W /\ (W[key].index = index \/ keep) THEN W[key].value
    ELSE index

\* the update_possession calls of the row loop, in row order
RECURSIVE ApplyChoices(_, _, _, _, _)
ApplyChoices(possessions, q, todo, choice, newid) ==
    IF todo = {} THEN [possessions |-> possessions, nextPoss |-> newid]
    ELSE LET n == SetMin(todo)
         IN ApplyChoices(
                update_possession(possessions, q, n,
                                  [paint_touch |-> (choice[n] # 0)], newid),
                q, todo \ {n}, choice,
                IF SlotIndices(possessions, q, n) = {} THEN newid + 1 ELSE newid)

\* the row loop over the rows `numbers` of quarter q: each radio is rendered
\* after the record its row shows, and update_possession is called where its
\* value is not None and differs from the record's.  A blank row whose radio
\* holds no value and is not clicked returns None; the loop is computed over
\* the other rows
RowLoop(possessions, q, numbers, W, click, keep, newid) ==
    LET Index(n) == PaintIndex(possessions, q, n)
        Choice(n) == RadioValue(W, <<q, n>>, Index(n), click, keep)
        live == {n \in {possessions[i].number : i \in InQuarter(possessions, q)}
                        \cup {k[2] : k \in {x \in DOMAIN W \cup DOMAIN click : x[1] = q}} :
                    n \in numbers}
        changed == {n \in live : Choice(n) # None /\ Choice(n) # Index(n)}
        done == ApplyChoices(possessions, q, changed,
                             [n \in changed |-> Choice(n)], newid)
    IN [possessions |-> done.possessions,
        nextPoss |-> done.nextPoss,
        updated |-> changed,
        widgets |-> [k \in {<<q, n>> : n \in {m \in live : Choice(m) # None}}
                        |-> [index |-> Index(k[2]), value |-> Choice(k[2])]]]

\* the value the radio of row `number` shows in the browser
Shown(number) ==
    IF <<quarter, number>> \in DOMAIN widget_state
    THEN widget_state[<<quarter, number>>].value ELSE None

\* the scorer clicks the Paint Touch radio of row `number`
RunPaintClick(number, paint_choice, keep) ==
    /\ RowShown(number)
    /\ paint_choice # Shown(number)
    /\ LET run == RowLoop(ActivePossessions, quarter,
                          1..get_rows_for_quarter(quarter), widget_state,
                          [k \in {<<quarter, number>>} |-> paint_choice],
                          keep, nextPoss)
       IN /\ run.nextPoss <= FirstPossId + MaxPoss
          /\ games' = [games EXCEPT ![ActiveIndex].possessions = run.possessions]
          /\ nextPoss' = run.nextPoss
          /\ widget_state' = run.widgets
          /\ last' = [op |-> "run_click", game |-> active_game_id,
                      number |-> number, updated |-> run.updated]
    /\ UNCHANGED <<active_game_id, rows_by_quarter, quarter, nextGame, db_loaded,
                   pending_delete_game_id, storeVars, calls>>

\* the scorer presses Select of the i-th game: the rows of that game are
\* rendered in the same run
RunSelect(i, keep) ==
    /\ db_loaded
    /\ i \in 1..Len(games)
    /\ LET run == RowLoop(games[i].possessions, quarter,
                          1..get_rows_for_quarter(quarter), widget_state,
                          <<>>, keep, nextPoss)
       IN /\ run.nextPoss <= FirstPossId + MaxPoss
          /\ active_game_id' = games[i].id
          /\ games' = [games EXCEPT ![i].possessions = run.possessions]
          /\ nextPoss' = run.nextPoss
          /\ widget_state' = run.widgets
          /\ last' = [op |-> "run_select", game |-> games[i].id,
                      updated |-> run.updated]
    /\ UNCHANGED <<rows_by_quarter, quarter, nextGame, db_loaded,
                   pending_delete_game_id, storeVars, calls>>

\* the scorer presses Create game with a name that is not blank: the rows of
\* the new game are rendered in the same run
RunCreate(game_name, opponent, game_date, keep) ==
    /\ db_loaded
    /\ Strip(game_name) # <<>>
    /\ LET run == RowLoop(<<>>, quarter, 1..get_rows_for_quarter(quarter),
                          widget_state, <<>>, keep, nextPoss)
       IN /\ run.nextPoss <= FirstPossId + MaxPoss
          /\ games' = InsertFront(games,
                            [id |-> nextGame, name |-> Strip(game_name),
                             opponent |-> opponent, date |-> game_date,
                             possessions |-> run.possessions])
          /\ active_game_id' = nextGame
          /\ nextGame' = nextGame + 1
          /\ nextPoss' = run.nextPoss
          /\ widget_state' = run.widgets
          /\ last' = [op |-> "run_create", game |-> nextGame,
                      updated |-> run.updated]
    /\ UNCHANGED <<rows_by_quarter, quarter, db_loaded, pending_delete_game_id,
                   storeVars, calls>>

\* the scorer presses the bin button of row `number`: the rows above it have
\* been rendered, the record is deleted, the row count shrinks, and st.rerun()
\* starts a run that renders every row.  The radios not rendered before the
\* rerun keep their values or lose them, as the widget library decides (kept)
RunDelete(number, keep, kept) ==
    /\ RowShown(number)
    /\ LET above == RowLoop(ActivePossessions, quarter, 1..(number - 1),
                            widget_state, <<>>, keep, nextPoss)
           rows == ShrunkRows(get_rows_for_quarter(quarter))
           W == [k \in DOMAIN above.widgets
                        \cup (IF kept THEN {x \in DOMAIN widget_state : x[2] >= number}
                              ELSE {})
                    |-> IF k \in DOMAIN above.widgets THEN above.widgets[k]
                        ELSE widget_state[k]]
           run == RowLoop(delete_possession(above.possessions, quarter, number),
                          quarter, 1..rows, W, <<>>, keep, above.nextPoss)
       IN /\ run.nextPoss <= FirstPossId + MaxPoss
          /\ games' = [games EXCEPT ![ActiveIndex].possessions = run.possessions]
          /\ rows_by_quarter' = DictUpdate(rows_by_quarter, [k \in {quarter} |-> rows])
          /\ nextPoss' = run.nextPoss
          /\ widget_state' = run.widgets
          /\ last' = [op |-> "run_delete", game |-> active_game_id,
                      number |-> number,
                      updated |-> above.updated \cup run.updated]
    /\ UNCHANGED <<active_game_id, quarter, nextGame, db_loaded,
                   pending_delete_game_id, storeVars, calls>>

\* SpecWidgets: script runs of a session without a store, in quarter 1
NextWidgets ==
    \/ ~db_loaded /\ \E pick \in LoadPicks : StartupLoad(TRUE, pick)
    \/ \E n \in {<<"a">>}, o \in OpponentChoices, d \in DateChoices, keep \in BOOLEAN :
            nextGame <= MaxGames /\ RunCreate(n, o, d, keep)
    \/ \E i \in 1..Len(games), keep \in BOOLEAN : RunSelect(i, keep)
    \/ \E number \in 1..MaxSlot, c \in StorePaintChoices, keep \in BOOLEAN :
            RunPaintClick(number, c, keep)
    \/ \E number \in 1..MaxSlot, keep \in BOOLEAN, kept \in BOOLEAN :
            CanShrink /\ RunDelete(number, keep, kept)

SpecWidgets == Init /\ [][NextWidgets]_vars

\* the Points choices made in a session that is synced and loaded again
TripPointsChoices == {2}

\* SpecTrip: sessions that follow one another on one store: a game is filled
\* in, synced, and loaded again by the next session
NextTrip ==
    \/ ~db_loaded /\ \E pick \in LoadPicks : StartupLoad(TRUE, pick)
    \/ \E n \in NameChoices, o \in OpponentChoices, d \in DateChoices :
            games = <<>> /\ nextGame < MaxGames /\ CreateGame(n, o, d)
    \/ \E number \in 1..MaxSlot, c \in StorePaintChoices :
            RowShown(number) /\ CanFill(number) /\ PaintWidget(number, c)
    \/ \E number \in 1..MaxSlot, c \in TripPointsChoices :
            RowShown(number) /\ CanFill(number) /\ PointsWidget(number, c)
    \/ \E number \in 1..MaxSlot : CanShrink /\ DeletePossessionButton(number)
    \/ \E today \in DayChoices : SyncToDb(None, today)
    \/ last.op = "sync" /\ Reload

\* a first session on an empty store
InitTrip ==
    /\ InitSession
    /\ engine = TRUE
    /\ db_games = {}
    /\ db_possessions = {}
    /\ db_seq = 1

SpecTrip == InitTrip /\ [][NextTrip]_vars

\* the row the scorer works on: the last row shown
LastRow == {get_rows_for_quarter(quarter)}

\* SpecVisible: sessions of one game that follow one another on one store:
\* rows are added and deleted, the last row filled, the game
\* synced and loaded again by the next session
NextVisible ==
    \/ ~db_loaded /\ \E pick \in LoadPicks : StartupLoad(TRUE, pick)
    \/ \E n \in NameChoices, o \in OpponentChoices, d \in DateChoices :
            games = <<>> /\ nextGame < MaxGames /\ CreateGame(n, o, d)
    \/ CanGrow /\ AddPossessionRow
    \/ \E number \in LastRow, c \in StorePaintChoices :
            RowShown(number) /\ CanFill(number) /\ PaintWidget(number, c)
    \/ \E number \in LastRow : CanShrink /\ DeletePossessionButton(number)
    \/ \E today \in DayChoices : SyncToDb(None, today)
    \/ last.op = "sync" /\ Reload

SpecVisible == InitTrip /\ [][NextVisible]_vars

----------------------------------------------------------------------------
(* Ledger properties *)

Numbers(possessions, q) ==
    {possessions[i].number : i \in InQuarter(possessions, q)}

\* the numbers of the quarter's records are exactly 1..n, one record each
Dense(possessions, q) ==
    /\ Numbers(possessions, q) = 1..Cardinality(InQuarter(possessions, q))
    /\ \A i, j \in InQuarter(possessions, q) :
            possessions[i].number = possessions[j].number => i = j

Ids(possessions) == [i \in 1..Len(possessions) |-> possessions[i].id]

\* C1: after any sequence of upserts and deletes on visible rows, the numbers
\* of the records of each quarter of each game form the range 1..n without gaps.
C1_NumbersDense ==
    \A g \in 1..Len(games) : \A q \in QUARTERS : Dense(games[g].possessions, q)

\* C2: deleting row k of a quarter whose records are numbered 1..N leaves them
\* numbered 1..N-1: the record at k is gone, every record above k moved down by
\* one with its id and fields kept, every other record is as it was, and the
\* records keep their order in the list.
C2_DeleteRenumbers ==
    [][(last'.op = "delete" /\ ActiveIndex # 0
            /\ Dense(ActivePossessions, quarter)
            /\ last'.number \in Numbers(ActivePossessions, quarter))
        => LET P == ActivePossessions
               Q == games'[ActiveIndex].possessions
               k == last'.number
               N == Cardinality(InQuarter(P, quarter))
               gone == P[EntryIndex(k)]
               rest == SelectSeq(P, LAMBDA p : p.id # gone.id)
           IN /\ Numbers(Q, quarter) = 1..(N - 1)
              /\ Dense(Q, quarter)
              /\ Len(Q) = Len(P) - 1
              /\ Ids(Q) = Ids(rest)
              /\ \A i \in 1..Len(Q) :
                    IF rest[i].quarter = quarter /\ rest[i].number > k
                    THEN Q[i] = [rest[i] EXCEPT !.number = @ - 1]
                    ELSE Q[i] = rest[i]
    ]_vars

\* row 1 of a quarter that held records 1 and 2 has just been deleted: the
\* record of row 2 now stands in row 1
C2_Witness ==
    /\ last.op = "delete" /\ last.found /\ last.filled = 2 /\ last.number = 1
    /\ ActiveIndex # 0
    /\ Numbers(ActivePossessions, last.q) = {1}
    /\ Cardinality(InQuarter(ActivePossessions, last.q)) = 1

\* C3: no two records of a game share a (quarter, number) pair.
C3_SlotsUnique ==
    \A g \in 1..Len(games) :
        \A i, j \in 1..Len(games[g].possessions) :
            (/\ games[g].possessions[i].quarter = games[g].possessions[j].quarter
             /\ games[g].possessions[i].number = games[g].possessions[j].number)
            => i = j

\* a quarter holds two records and one of them has just been edited in place
C3_Witness ==
    /\ ActiveIndex # 0
    /\ Cardinality(InQuarter(ActivePossessions, quarter)) = 2
    /\ last.op = "upsert" /\ ~last.created

\* C4: a delete on a row that holds no record leaves every record of the game
\* as it was and lowers the quarter's row count by one, not below 1.
C4_DeleteEmptyRow ==
    [][(last'.op = "delete" /\ ActiveIndex # 0 /\ EntryIndex(last'.number) = 0)
        => /\ games' = games
           /\ get_rows_for_quarter(quarter)' = Max(1, get_rows_for_quarter(quarter) - 1)
    ]_vars

----------------------------------------------------------------------------
(* Row counts *)

\* C7: the visible row count of every quarter is at least 1, whatever deletes
\* and expands were issued.
C7_RowCountFloor == \A q \in QUARTERS : get_rows_for_quarter(q) >= 1

\* the bin button was pressed in a quarter that showed a single row
C7_Witness ==
    last.op = "delete" /\ last.rows = 1 /\ get_rows_for_quarter(last.q) = 1

\* the row count game g sees for quarter q
RowsSeen(g, q) == get_rows_for_quarter(q)

\* C8: the row count seen for a game changes only through an expand or a delete
\* performed on that game.
C8_RowsPerGame ==
    [][\A i \in 1..Len(games) : \A q \in QUARTERS :
            RowsSeen(games[i].id, q)' # RowsSeen(games[i].id, q)
            => last'.op \in {"delete", "expand"} /\ last'.game = games[i].id
    ]_vars

----------------------------------------------------------------------------
(* Sync to DB *)

\* row r of the store holds possession p
RowHolds(r, p) ==
    /\ r.client_id = p.id
    /\ r.quarter = p.quarter
    /\ r.number = p.number
    /\ r.paint_touch = p.paint_touch
    /\ (r.transition = 1) = p.transition
    /\ r.points = p.points
    /\ r.outcome = p.outcome
    /\ r.defense = p.defense
    /\ r.shot_quality = p.shot_quality

\* the rows the store holds for the game with this client id, of any tracker
StoredFor(client_id) ==
    {r \in db_possessions : r.game_id = GameRowId(db_games, client_id)}

\* C9: after a successful sync of a game the store holds, for that game, one
\* row per in-memory possession with its quarter, number and field values and
\* no other row, and the count returned is the number of in-memory possessions.
C9_SyncReplaces ==
    (last.op = "sync" /\ last.result = "success")
    => LET P == ActivePossessions
       IN /\ GameRowId(db_games, last.game) # None
          /\ \A i \in 1..Len(P) : \E r \in StoredFor(last.game) : RowHolds(r, P[i])
          /\ \A r \in StoredFor(last.game) : \E i \in 1..Len(P) : RowHolds(r, P[i])
          /\ Cardinality(StoredFor(last.game)) = Len(P)
          /\ last.synced = Len(P)

\* a sync has just succeeded for a game created in this session, of which the
\* store held a row from an earlier sync that is no longer in memory
C9_Witness ==
    /\ last.op = "sync" /\ last.result = "success" /\ last.stale > 0
    /\ \A r \in db_games : r.client_id = last.game => r.client_id < nextGame

\* C10: sync and load leave every stored row of another tracker in place, and
\* no loaded possession comes from such a row.
C10_OtherTrackersUntouched ==
    [][last'.op \in {"sync", "load"}
        => /\ \A r \in db_possessions : ~TrackerRead(r.tracker) => r \in db_possessions'
           /\ \A g \in 1..Len(games') : \A i \in 1..Len(games'[g].possessions) :
                \A r \in db_possessions :
                    r.client_id = games'[g].possessions[i].id => TrackerRead(r.tracker)
    ]_vars

\* the fields of a possession the store keeps
Fields(p) ==
    [id |-> p.id, quarter |-> p.quarter, number |-> p.number,
     paint_touch |-> p.paint_touch, transition |-> p.transition,
     points |-> p.points, outcome |-> p.outcome, defense |-> p.defense,
     shot_quality |-> p.shot_quality]

\* the field values of the possessions, in the order of (quarter, number)
ByKey(possessions) ==
    LET keys == SortedKeys({<<possessions[i].quarter, possessions[i].number>> :
                                i \in 1..Len(possessions)})
    IN [k \in 1..Len(keys) |->
            {Fields(possessions[i]) : i \in SlotIndices(possessions, keys[k][1], keys[k][2])}]

\* C11: a game synced and then loaded comes back with the possessions it had
\* in memory, equal field by field once both are ordered by (quarter, number).
C11_RoundTrip ==
    (last.op = "load" /\ last.loaded /\ last.trip # <<>> /\ C3_SlotsUnique)
    => LET game == last.trip[1]
           back == {g \in 1..Len(games) : games[g].id = game.id}
       IN /\ Cardinality(back) = 1
          /\ \A g \in back :
                /\ ByKey(games[g].possessions) = ByKey(game.possessions)
                /\ Len(games[g].possessions) = Len(game.possessions)

\* a game holding two possessions, one of them without points, entered out of
\* row order, has been synced and loaded again
C11_Witness ==
    /\ last.op = "load" /\ last.loaded /\ last.trip # <<>>
    /\ Len(last.trip[1].possessions) = 2
    /\ last.trip[1].possessions[1].number = 2
    /\ \E i \in 1..2 : last.trip[1].possessions[i].points = None
    /\ \E i \in 1..2 : last.trip[1].possessions[i].points = 2

\* possession p carries the field values of row r, as a load reads them
RowLoaded(r, p) ==
    /\ p.id = r.client_id
    /\ p.quarter = r.quarter
    /\ p.number = r.number
    /\ p.paint_touch = r.paint_touch
    /\ p.transition = (r.transition = 1)
    /\ p.points = r.points
    /\ p.outcome = r.outcome
    /\ p.defense = (IF r.defense = NULL THEN "" ELSE r.defense)
    /\ p.shot_quality = (IF r.shot_quality = NULL THEN "" ELSE r.shot_quality)

\* the rows of the tracker stored for the game row with this id
TrackerRows(game_id) ==
    {r \in db_possessions : r.game_id = game_id /\ r.tracker \in {NULL, "", "paint"}}

\* C12: a load attaches to each game one possession per distinct (quarter,
\* number) of its stored rows, carrying the field values of a row of that slot
\* with the greatest timestamp, and the list is sorted by (quarter, number).
C12_DedupOnLoad ==
    (last.op = "load" /\ last.loaded)
    => \A gr \in db_games :
        \E g \in 1..Len(games) :
            /\ games[g].id = gr.client_id
            /\ LET P == games[g].possessions
                   rows == TrackerRows(gr.id)
               IN /\ \A r \in rows : \E i \in 1..Len(P) :
                        P[i].quarter = r.quarter /\ P[i].number = r.number
                  /\ \A i, j \in 1..Len(P) :
                        i < j => \/ P[i].quarter < P[j].quarter
                                 \/ /\ P[i].quarter = P[j].quarter
                                    /\ P[i].number < P[j].number
                  /\ \A i \in 1..Len(P) : \E r \in rows :
                        /\ RowLoaded(r, P[i])
                        /\ \A o \in rows :
                            (o.quarter = r.quarter /\ o.number = r.number)
                            => o.timestamp <= r.timestamp

\* a load has read two rows of one slot with different timestamps and the game
\* holds the one possession of the later row
C12_Witness ==
    /\ last.op = "load" /\ last.loaded
    /\ \E gr \in db_games : \E r, o \in TrackerRows(gr.id) :
        /\ r.quarter = o.quarter /\ r.number = o.number
        /\ o.timestamp < r.timestamp
        /\ \E g \in 1..Len(games) :
            /\ games[g].id = gr.client_id
            /\ \E i \in 1..Len(games[g].possessions) :
                    games[g].possessions[i].id = r.client_id

\* C13: a sync, a load or a store delete in which a statement raises leaves
\* the store as it was before the call and changes no game or possession in
\* memory, and the handler reports the failure.  (After a delete, failed or not,
\* the Confirm handler goes on to take the game out of the session.)
C13_AllOrNothing ==
    [][/\ (last'.op = "sync" /\ last'.raised # None)
            => /\ UNCHANGED <<db_games, db_possessions>>
               /\ UNCHANGED <<games, active_game_id>>
               /\ last'.result = "failed"
       /\ (last'.op = "load" /\ ~last'.ok)
            => /\ UNCHANGED <<db_games, db_possessions>>
               /\ UNCHANGED <<games, active_game_id>>
               /\ db_loaded'
       /\ (last'.op = "confirm" /\ last'.raised # None)
            => /\ UNCHANGED <<db_games, db_possessions>>
               /\ games' = RemoveGame(games, last'.game)
               /\ last'.result = "failed"
    ]_vars

\* the second INSERT of a sync has raised, after the game's rows were deleted
\* and one was written again; the store holds rows of the game that memory
\* does not
C13_Witness ==
    /\ last.op = "sync" /\ last.raised = 5 /\ last.stale > 0
    /\ StoredFor(last.game) # {}

----------------------------------------------------------------------------
(* Game registry *)

Registry == [i \in 1..Len(games) |-> games[i].id]

\* C16: a confirmed delete takes exactly the game with that id out of the
\* registry, the others keep their order; the selection moves to the new front
\* game (none when no game is left) when the deleted game was active, and
\* stays as it is otherwise.
C16_ConfirmRemoves ==
    [][last'.op = "confirm"
        => LET id == last'.game
               k == CHOOSE i \in 1..Len(games) : games[i].id = id
           IN /\ \E i \in 1..Len(games) : games[i].id = id
              /\ Len(games') = Len(games) - 1
              /\ \A i \in 1..Len(games') :
                    games'[i] = IF i < k THEN games[i] ELSE games[i + 1]
              /\ IF active_game_id = id
                 THEN active_game_id' = IF Len(games') > 0 THEN games'[1].id ELSE None
                 ELSE active_game_id' = active_game_id
    ]_vars

\* the active game has just been deleted, two games or more are left and the
\* front one is selected
C16_Witness ==
    /\ last.op = "confirm"
    /\ last.active = last.game
    /\ Len(games) >= 2
    /\ active_game_id = games[1].id

\* C17: the active selection is none or the id of exactly one game of the
\* registry.
C17_ActiveInRegistry ==
    \/ active_game_id = None
    \/ Cardinality({i \in 1..Len(games) : games[i].id = active_game_id}) = 1

\* the active game has just been deleted and a single game is left
C17_Witness ==
    /\ last.op = "confirm"
    /\ last.active = last.game
    /\ Len(games) = 1
    /\ \A i \in 1..Len(games) : games[i].id # last.game

\* C18: create_game with a name that is not blank once trimmed puts a game
\* with a fresh id and no possession at the front of the registry, leaves the
\* games that were there in their order, and makes the new game active.
C18_CreateAtFront ==
    [][(last'.op = "create_game" /\ Strip(last'.name) # <<>>)
        => /\ Len(games') = Len(games) + 1
           /\ \A i \in 1..Len(games) : games'[i + 1] = games[i]
           /\ games'[1].possessions = <<>>
           /\ games'[1].name = Strip(last'.name)
           /\ \A i \in 1..Len(games) : games[i].id # games'[1].id
           /\ \A r \in db_games : r.client_id # games'[1].id
           /\ active_game_id' = games'[1].id
    ]_vars

\* a game has just been created in front of another one
C18_Witness ==
    /\ last.op = "create_game"
    /\ Len(games) >= 2
    /\ games[1].id = last.id
    /\ active_game_id = last.id

\* C19: the store delete of a game removes its possession rows before its
\* game row: in the tables as any of its statements leaves them every
\* possession row refers to a game row; once it is done neither the game row
\* nor a possession row of the game is left; a game without a row in the store
\* leaves the store as it is.
RowsReferToGames(tables) ==
    \A r \in tables.possessions : \E g \in tables.games : g.id = r.game_id

C19_DeleteKeepsReferences ==
    [][(last'.op = "confirm" /\ last'.result = "success")
        => /\ \A k \in 1..Len(last'.steps) : RowsReferToGames(last'.steps[k])
           /\ \A g \in db_games' : g.client_id # last'.game
           /\ \A r \in db_possessions' : r.game_id # last'.db_id
           /\ RowsReferToGames([games |-> db_games', possessions |-> db_possessions'])
           /\ last'.db_id = None => UNCHANGED <<db_games, db_possessions>>
           /\ \A g \in db_games : g.client_id # last'.game => g \in db_games'
           /\ \A r \in db_possessions : r.game_id # last'.db_id => r \in db_possessions'
    ]_vars

\* a game whose stored rows include one of another tracker has just been
\* deleted from the store
C19_Witness ==
    /\ last.op = "confirm" /\ last.result = "success"
    /\ Len(last.steps) = 3
    /\ Cardinality(last.steps[1].possessions) = 3
    /\ db_possessions = {}

\* C20: a game leaves the registry only through a Confirm taken while it is
\* the game pending deletion; Delete alone, or Delete and then Cancel, removes
\* no game and no possession; one game at most is pending.
C20_OnlyConfirmDestroys ==
    [][/\ \A i \in 1..Len(games) :
            (\A j \in 1..Len(games') : games'[j].id # games[i].id)
            => /\ last'.op = "confirm"
               /\ last'.game = games[i].id
               /\ pending_delete_game_id = games[i].id
       /\ last'.op \in {"delete_game", "cancel"} => games' = games
       /\ last'.op = "delete_game" => pending_delete_game_id' = last'.game
       /\ last'.op \in {"cancel", "confirm"} => pending_delete_game_id' = None
    ]_vars

\* Delete was pressed on a game and then Cancel: the game is still there
C20_Witness ==
    /\ last.op = "cancel"
    /\ pending_delete_game_id = None
    /\ \E i \in 1..Len(games) :
            games[i].id = last.game /\ games[i].possessions # <<>>

----------------------------------------------------------------------------
(* Analytics *)

\* the scope of the figures shown last
LastScope ==
    analytics_possessions(ActivePossessions, last.quarter_filter, last.half_filter)

\* the starts of the maximal runs of matching possessions of length 3 or more
LongRuns(possessions) ==
    {s \in 1..Len(possessions) :
        /\ s = 1 \/ ~Made(possessions[s - 1])
        /\ s + 2 <= Len(possessions)
        /\ \A i \in s..(s + 2) : Made(possessions[i])}

\* C14: the streak count of an ordered possession sequence is the number of
\* its maximal runs of consecutive matching possessions (paint touch and
\* points above 0) that are 3 long or longer.
C14_StreaksAreLongRuns ==
    last.op = "analytics"
    => last.stats.paint_touch_3_streaks = Cardinality(LongRuns(LastScope))

\* the sequence matching, matching, matching, not, then five matching ones
\* has been counted: 2
C14_Witness ==
    /\ last.op = "analytics"
    /\ Len(LastScope) = 9
    /\ \A i \in 1..9 : Made(LastScope[i]) <=> i # 4
    /\ last.stats.paint_touch_3_streaks = 2

\* the rates and per-possession figures shown last, each with its denominator
LastMetrics ==
    LET st == last.stats
        scope == LastScope
        paint == Cardinality({i \in 1..Len(scope) : scope[i].paint_touch})
        trans == Cardinality({i \in 1..Len(scope) : scope[i].transition})
        Def(d) == Cardinality({i \in 1..Len(scope) :
                        scope[i].defense \in {d, IF d = "man" THEN "Man" ELSE "Zone"}})
        InQ(q) == {i \in 1..Len(ActivePossessions) : ActivePossessions[i].quarter = q}
        PaintQ(q) == {i \in InQ(q) : ActivePossessions[i].paint_touch}
    IN {<<st.paint_rate, Len(scope)>>,
        <<st.ppp, Len(scope)>>,
        <<st.transition_rate, Len(scope)>>,
        <<st.transition_ppp, trans>>,
        <<st.transition_score_rate, trans>>,
        <<st.paint_score_rate, paint>>,
        <<st.non_paint_score_rate, Len(scope) - paint>>,
        <<st.rim_make_pct, paint>>,
        <<st.kick_out_pct, paint>>,
        <<st.foul_drawn_pct, paint>>,
        <<st.man.paint_rate, Def("man")>>,
        <<st.man.ppp, Def("man")>>,
        <<st.zone.paint_rate, Def("zone")>>,
        <<st.zone.ppp, Def("zone")>>}
       \cup {<<st.quarter_stats[q].paint_rate, Cardinality(InQ(q))>> : q \in QUARTERS}
       \cup {<<st.quarter_stats[q].paint_score_rate, Cardinality(PaintQ(q))>> : q \in QUARTERS}

\* C15: every rate and points-per-possession figure is defined for every
\* possession subset, and is 0 when its denominator is 0; no division by zero
\* happens.
C15_ZeroDenominators ==
    last.op = "analytics"
    => \A m \in LastMetrics : ~m[1].raised /\ (m[2] = 0 => m[1].value = 0)

\* figures were shown for a scope that holds possessions, none of them a paint
\* touch, a transition or under man defense, in a game with an empty quarter
C15_Witness ==
    /\ last.op = "analytics"
    /\ Len(LastScope) > 0
    /\ \A i \in 1..Len(LastScope) :
            /\ ~LastScope[i].paint_touch
            /\ ~LastScope[i].transition
            /\ LastScope[i].defense # "man"
    /\ last.stats.paint_score_rate.value = 0
    /\ last.stats.transition_ppp.value = 0
    /\ last.stats.man.ppp.value = 0
    /\ last.stats.non_paint_score_rate.value = 100

\* the rates shown last, each with its count of matching possessions and its
\* denominator
LastRates ==
    LET st == last.stats
        scope == LastScope
        All == 1..Len(scope)
        Paint == {i \in All : scope[i].paint_touch}
        Trans == {i \in All : scope[i].transition}
        Scored == {i \in All : scope[i].points # None /\ scope[i].points > 0}
        Def(d) == {i \in All :
                        scope[i].defense \in {d, IF d = "man" THEN "Man" ELSE "Zone"}}
        Out(key) == {i \in Paint : scope[i].outcome = key}
        P == ActivePossessions
        InQ(q) == {i \in 1..Len(P) : P[i].quarter = q}
        PaintQ(q) == {i \in InQ(q) : P[i].paint_touch}
        ScoredQ(q) == {i \in PaintQ(q) : P[i].points # None /\ P[i].points > 0}
        N(S) == Cardinality(S)
    IN {<<st.paint_rate, N(Paint), N(All)>>,
        <<st.transition_rate, N(Trans), N(All)>>,
        <<st.transition_score_rate, N(Trans \cap Scored), N(Trans)>>,
        <<st.paint_score_rate, N(Paint \cap Scored), N(Paint)>>,
        <<st.non_paint_score_rate, N(Scored \ Paint), N(All \ Paint)>>,
        <<st.rim_make_pct, N(Out("shot_at_rim_make")), N(Paint)>>,
        <<st.kick_out_pct, N(Out("kick_out_3_make")), N(Paint)>>,
        <<st.foul_drawn_pct, N(Out("foul_drawn")), N(Paint)>>,
        <<st.man.paint_rate, N(Def("man") \cap Paint), N(Def("man"))>>,
        <<st.zone.paint_rate, N(Def("zone") \cap Paint), N(Def("zone"))>>}
       \cup {<<st.quarter_stats[q].paint_rate, N(PaintQ(q)), N(InQ(q))>> : q \in QUARTERS}
       \cup {<<st.quarter_stats[q].paint_score_rate, N(ScoredQ(q)), N(PaintQ(q))>> : q \in QUARTERS}

\* the scope shown last is (paint touch, 2 points), (paint touch, 0 points),
\* (no paint touch, 3 points)
LastScopeIsExample ==
    /\ Len(LastScope) = 3
    /\ LastScope[1].paint_touch /\ LastScope[1].points = 2
    /\ LastScope[2].paint_touch /\ LastScope[2].points = 0
    /\ ~LastScope[3].paint_touch /\ LastScope[3].points = 3

\* C22: for (paint touch, 2), (paint touch, 0), (no paint touch, 3) the paint
\* rate is 67, the points per possession 1.67, the paint score rate 50 and the
\* non-paint score rate 100; every rate is the integer nearest to
\* 100 * matching / denominator and lies in 0..100.
C22_RatesRounded ==
    last.op = "analytics"
    => /\ LastScopeIsExample
            => /\ last.stats.paint_rate.value = 67
               /\ last.stats.ppp.value = 167
               /\ last.stats.paint_score_rate.value = 50
               /\ last.stats.non_paint_score_rate.value = 100
       /\ \A r \in LastRates :
            /\ r[1].value \in 0..100
            /\ r[3] > 0 => /\ 2 * (100 * r[2] - r[1].value * r[3]) <= r[3]
                           /\ 2 * (r[1].value * r[3] - 100 * r[2]) <= r[3]

\* the figures of the example have been shown for quarter 1
C22_Witness ==
    /\ last.op = "analytics"
    /\ last.quarter_filter = 1
    /\ LastScopeIsExample
    /\ last.stats.paint_rate.value = 67

\* C21: create_game with a name that is empty or only blanks changes nothing:
\* the registry, every game's possessions and the active selection stay.
C21_BlankNameNoOp ==
    [][(last'.op = "create_game" /\ \A i \in 1..Len(last'.name) : last'.name[i] = " ")
        => /\ games' = games
           /\ active_game_id' = active_game_id
           /\ nextGame' = nextGame
    ]_vars

\* Create game was pressed with a name of blanks only while the registry held
\* a game with possessions
C21_Witness ==
    /\ last.op = "create_game"
    /\ last.name = <<" ">>
    /\ \E i \in 1..Len(games) : games[i].possessions # <<>>
    /\ active_game_id # None

----------------------------------------------------------------------------
(* update_possession called directly *)

\* every value the map carries lies in the domain of its field
ValidUpdates(u) ==
    /\ "quarter" \in DOMAIN u => u.quarter \in QUARTERS
    /\ "points" \in DOMAIN u => u.points \in POINT_OPTIONS
    /\ "outcome" \in DOMAIN u => u.outcome \in OUTCOME_VALUES
    /\ "defense" \in DOMAIN u => u.defense \in {"man", "zone"}
    /\ "shot_quality" \in DOMAIN u => u.shot_quality \in {"good", "bad"}

\* C5: an upsert whose map carries a value outside its field's domain leaves
\* the ledger as it was.
C5_InvalidRejected ==
    [][(last'.op = "api_upsert" /\ ~ValidUpdates(last'.updates)) => games' = games]_vars

\* C6: an upsert applied a second time in a row, to the same slot with the same
\* map, leaves the ledger as the first application left it.
C6_UpsertIdempotent ==
    [][(last'.op = "api_upsert" /\ last'.replay) => games' = games]_vars

\* the map leaves the record in the slot it is addressed by
SlotKept(u, q, number) ==
    /\ "quarter" \in DOMAIN u => u.quarter = q
    /\ "number" \in DOMAIN u => u.number = number

\* C6 (amended): the same, for a map that does not move the record to another
\* quarter or number.
C6_UpsertIdempotentInSlot ==
    [][(last'.op = "api_upsert" /\ last'.replay
            /\ SlotKept(last'.updates, last'.q, last'.number))
        => games' = games]_vars

\* an upsert that created a record has just been replayed
C6_Witness ==
    /\ last.op = "api_upsert" /\ last.replay /\ last.after_create
    /\ SlotKept(last.updates, last.q, last.number)
    /\ Len(ActivePossessions) = 1

\* the fields that identify a record and its slot
KeyFields == {"id", "quarter", "number"}

\* the record an upsert on an existing slot is about to update
UpsertTarget ==
    ActivePossessions[SetMin(SlotIndices(ActivePossessions, last'.q, last'.number))]

\* the step leaves the updated record its id, quarter and number and every
\* field the map does not name, gives the named fields the map's values, and
\* leaves every other record of the game and every other game as it was
OnlyNamedOverwritten ==
    LET P == ActivePossessions
        Q == games'[ActiveIndex].possessions
        k == SetMin(SlotIndices(P, last'.q, last'.number))
        u == last'.updates
    IN /\ Len(Q) = Len(P)
       /\ \A i \in 1..Len(P) : i # k => Q[i] = P[i]
       /\ DOMAIN Q[k] = DOMAIN P[k] \cup DOMAIN u
       /\ \A f \in KeyFields : Q[k][f] = P[k][f]
       /\ \A f \in DOMAIN P[k] \ DOMAIN u : Q[k][f] = P[k][f]
       /\ \A f \in DOMAIN u \ KeyFields : Q[k][f] = u[f]
       /\ \A g \in 1..Len(games) : g # ActiveIndex => games'[g] = games[g]
       /\ Len(games') = Len(games)

\* the map gives the record no other id, quarter or number than it has
KeepsKeys(u, p) == \A f \in KeyFields \cap DOMAIN u : u[f] = p[f]

\* C23: an upsert on an existing slot overwrites only the fields named in the
\* map: the record's id, quarter, number and every field not named keep their
\* values, and every other record of the game and of other games is unchanged.
C23_OverwritesOnlyNamed ==
    [][(last'.op = "api_upsert" /\ ~last'.created) => OnlyNamedOverwritten]_vars

\* C23 (amended): the same, for a map that gives the record no other id,
\* quarter or number than it has.
C23_OverwritesOnlyNamedKeepingKeys ==
    [][(/\ last'.op = "api_upsert" /\ ~last'.created
        /\ KeepsKeys(last'.updates, UpsertTarget))
        => OnlyNamedOverwritten]_vars

\* the points of a record that is a paint touch have just been set, in a game
\* that stands in front of another game holding the same slot
C23_Witness ==
    /\ last.op = "api_upsert" /\ ~last.created
    /\ last.updates = [points |-> 2]
    /\ \E i \in SlotIndices(ActivePossessions, last.q, last.number) :
            ActivePossessions[i].paint_touch /\ ActivePossessions[i].points = 2
    /\ Len(games) = 2

----------------------------------------------------------------------------
(* Add possession row *)

\* C24: expand raises the row count of its quarter by exactly one, from the
\* default 30 when the quarter was never set, leaves the row counts of the
\* other quarters as they are and creates no possession record: without an
\* upsert no record exists.
C24_ExpandAddsOneRow ==
    [][last'.op = "expand"
        => LET q == last'.q
               before == IF q \in DOMAIN rows_by_quarter
                         THEN rows_by_quarter[q] ELSE DEFAULT_ROWS
           IN /\ q = quarter
              /\ q \in DOMAIN rows_by_quarter'
              /\ rows_by_quarter'[q] = before + 1
              /\ \A o \in QUARTERS \ {q} :
                    /\ o \in DOMAIN rows_by_quarter' <=> o \in DOMAIN rows_by_quarter
                    /\ o \in DOMAIN rows_by_quarter
                        => rows_by_quarter'[o] = rows_by_quarter[o]
              /\ games' = games
              /\ \A g \in 1..Len(games') : games'[g].possessions = <<>>
    ]_vars

\* a row has just been added to a quarter never set before, while another
\* quarter shows fewer rows than the default
C24_Witness ==
    /\ last.op = "expand"
    /\ rows_by_quarter[last.q] = DEFAULT_ROWS + 1
    /\ \E o \in DOMAIN rows_by_quarter : o # last.q /\ rows_by_quarter[o] < DEFAULT_ROWS
    /\ games # <<>>

----------------------------------------------------------------------------
(* Sessions without a connection string *)

\* the record of the active game at row `number` of quarter q holds updates
Holds(gs, id, q, number, updates) ==
    \E g \in 1..Len(gs) :
        /\ gs[g].id = id
        /\ \E i \in 1..Len(gs[g].possessions) :
              LET p == gs[g].possessions[i]
              IN /\ p.quarter = q
                 /\ p.number = number
                 /\ \A f \in DOMAIN updates : p[f] = updates[f]

\* what each button does to the session, whatever the store
InMemoryEffect ==
    /\ (last'.op = "create_game" /\ Strip(last'.name) # <<>>)
        => /\ Len(games') = Len(games) + 1
           /\ games'[1].id = last'.id
           /\ games'[1].name = Strip(last'.name)
           /\ games'[1].possessions = <<>>
           /\ \A i \in 1..Len(games) : games'[i + 1] = games[i]
           /\ active_game_id' = last'.id
    /\ last'.op = "select"
        => /\ active_game_id' = last'.game
           /\ games' = games
    /\ last'.op = "confirm"
        => /\ \A i \in 1..Len(games') : games'[i].id # last'.game
           /\ Len(games') = Len(games) - 1
           /\ pending_delete_game_id' = None
           /\ active_game_id' # last'.game
    /\ last'.op = "upsert"
        => /\ Holds(games', last'.game, last'.q, last'.number, last'.updates)
           /\ Len(games'[ActiveIndex].possessions)
                = Len(ActivePossessions) + (IF last'.created THEN 1 ELSE 0)
    /\ last'.op = "delete"
        => /\ Len(games'[ActiveIndex].possessions)
                = Len(ActivePossessions) - (IF last'.found THEN 1 ELSE 0)
           /\ rows_by_quarter'[last'.q] = Max(1, last'.rows - 1)
    /\ last'.op = "expand"
        => rows_by_quarter'[last'.q]
                = 1 + (IF last'.q \in DOMAIN rows_by_quarter
                       THEN rows_by_quarter[last'.q] ELSE DEFAULT_ROWS)

\* C25: without a connection string no step of a session executes a store
\* operation: the load is skipped, sync and confirmed delete find no engine
\* and raise nothing, the store stays as it is; and create, select, confirmed
\* delete, upsert, delete and expand change the session as they always do.
C25_OfflineNoStore ==
    [][~engine
        => /\ UNCHANGED <<engine, db_games, db_possessions, db_seq>>
           /\ last'.op = "load" => (~last'.loaded /\ last'.ok /\ games' = games)
           /\ last'.op \in {"sync", "confirm"}
                => (last'.result = "no engine" /\ last'.raised = None)
           /\ last'.op = "sync" => last'.synced = None
           /\ last'.op = "confirm" => last'.steps = <<>>
           /\ InMemoryEffect
    ]_vars

\* without a connection string a game was created and deleted again, a
\* second one holds a possession and has just been offered to a store that
\* still holds its games
C25_Witness ==
    /\ ~engine
    /\ last.op = "sync"
    /\ last.result = "no engine"
    /\ nextGame = 3
    /\ Len(games) = 1
    /\ rows_by_quarter # <<>>
    /\ db_games # {}

----------------------------------------------------------------------------
(* Streaks and the order of entry *)

\* the possessions of the scope shown last, in the order of the list
LastScopeAsEntered ==
    SelectSeq(ActivePossessions,
        LAMBDA p : IF last.half_filter = 1 THEN p.quarter \in {1, 2}
                   ELSE IF last.half_filter = 2 THEN p.quarter \in {3, 4}
                   ELSE IF last.quarter_filter = None THEN TRUE
                   ELSE p.quarter = last.quarter_filter)

\* the records of set S laid out by (quarter, number), least first
RECURSIVE InKeyOrder(_)
InKeyOrder(S) ==
    IF S = {} THEN <<>>
    ELSE LET p == CHOOSE x \in S : \A y \in S :
                    ~KeyLess(<<y.quarter, y.number>>, <<x.quarter, x.number>>)
         IN <<p>> \o InKeyOrder(S \ {p})

\* C26: the streak count shown for a scope is the count of the scope's
\* records laid out by (quarter, number): it is a function of the set of
\* records, whatever the order in which they entered the list.
C26_StreaksIgnoreEntryOrder ==
    last.op = "analytics"
    => last.stats.paint_touch_3_streaks
        = count_paint_touch_three_make_streaks(
            InKeyOrder({LastScopeAsEntered[i] : i \in 1..Len(LastScopeAsEntered)}))

\* a scope has been counted whose records, taken in the order of the list,
\* would give another count, in a session that used a bin button
C26_Witness ==
    /\ last.op = "analytics"
    /\ Len(LastScopeAsEntered) >= 3
    /\ last.stats.paint_touch_3_streaks
        # count_paint_touch_three_make_streaks(LastScopeAsEntered)
    /\ rows_by_quarter # <<>>

----------------------------------------------------------------------------
(* Script runs in which the scorer changed no field *)

\* C27: a script run in which the scorer clicked no field widget creates or
\* modifies no possession record: after Select the games are as they were,
\* after Create game the new game is empty in front of the old ones, after a
\* bin button the ledger is what delete_possession made of it.
C27_QuietRunKeepsLedgers ==
    [][/\ last'.op = "run_select" => games' = games
       /\ last'.op = "run_create"
            => (Tail(games') = games /\ games'[1].possessions = <<>>)
       /\ last'.op = "run_delete"
            => games' = [games EXCEPT ![ActiveIndex].possessions =
                            delete_possession(@, quarter, last'.number)]
    ]_vars

\* Select has just put a record into a row the scorer never touched
C27_SelectWritesRecord ==
    /\ last.op = "run_select"
    /\ last.updated # {}
    /\ Len(games) = 2

----------------------------------------------------------------------------
(* Rows shown and records held *)

\* C28: every possession of the active game can be seen and edited: its
\* number is not above the row count of its quarter.
C28_PossessionsVisible ==
    (db_loaded /\ ActiveIndex # 0)
    => \A i \in 1..Len(ActivePossessions) :
            ActivePossessions[i].number
                <= get_rows_for_quarter(ActivePossessions[i].quarter)

----------------------------------------------------------------------------
(* Confirm delete and a store that fails *)

\* C29: after a Confirm delete the game is out of the registry and no game is
\* pending, whether the store delete succeeded, raised or was skipped for
\* lack of an engine; when it raised, the store still holds the row of the
\* game and each of its possession rows.
C29_ConfirmAlwaysRemoves ==
    [][last'.op = "confirm"
        => /\ last'.result \in {"success", "failed", "no engine"}
           /\ \A i \in 1..Len(games') : games'[i].id # last'.game
           /\ pending_delete_game_id' = None
           /\ last'.result = "failed"
                => /\ \A g \in db_games : g.client_id = last'.game => g \in db_games'
                   /\ \A r \in db_possessions :
                        r.game_id = last'.db_id => r \in db_possessions'
    ]_vars

\* the DELETE of the game row has raised after the possession rows were
\* deleted: the game is out of the registry, the store holds it with its rows
C29_Witness ==
    /\ last.op = "confirm"
    /\ last.result = "failed"
    /\ last.raised = 3
    /\ \A i \in 1..Len(games) : games[i].id # last.game
    /\ pending_delete_game_id = None
    /\ \E g \in db_games : g.client_id = last.game
    /\ Cardinality({r \in db_possessions : r.game_id = last.db_id}) >= 2

====
